---------------------------- MODULE Spec2Model ----------------------------
(***************************************************************************)
(* A model of src/import_tlg.py: the scene-container reader (TLGReader),   *)
(* its pure helpers, the geometry and skin-weight buffer decoders and the  *)
(* quaternion reconstruction of the animation reader and the animation     *)
(* container reader (TLGAnimReader).                                       *)
(*                                                                         *)
(* Text is a sequence of one-character strings; a file is a sequence of    *)
(* bytes, each a number 0..255.                                            *)
(***************************************************************************)
EXTENDS Integers, Sequences, FiniteSets, TLC

VARIABLES
    \* ---- get_base_name, applied to a drawn name -------------------------
    n_pc,       \* "start" | "once" | "twice"
    n_name,     \* the drawn mesh name
    n_once,     \* get_base_name(n_name)
    n_twice,    \* get_base_name(get_base_name(n_name))
    \* ---- _unpack_data's quaternion reconstruction of one sample ---------
    q_pc,       \* "start" | "done"
    q_xyz,      \* the three stored floats
    q_out,      \* what the reconstruction of w did
    \* ---- get_data_buffer on one buffer file ----------------------------
    d_pc,       \* "start" | "done"
    d_file,     \* the bytes of the buffer file
    d_kind,     \* the requested buffer_type
    d_out,      \* what get_data_buffer returned
    \* ---- parse_and_apply_weights on one weights file --------------------
    w_pc,       \* "start" | "loop" | "returned"
    w_size,     \* file_size, the size of the weights file in bytes
    w_numVerts, \* render_ext_obj.numVerts
    w_fmt,      \* what the stride inference decided
    w_tell,     \* f.tell()
    w_i,        \* the vertex records unpacked so far
    w_rec,      \* unpacked_data of the last record
    w_adds,     \* the vgroup.add calls of the last pass, in order
    w_count,    \* applied_weights_count
    \* ---- TLGReader.read on a scene --------------------------------------
    scn,        \* the scene: the files on disk and the path handed over
    cut,        \* the length the entry file is cut to
    pc,         \* where read() is: "start" | "blocks" | "props" | "globdir"
                \* | "dir" | "mat" | "variants" | "scene" | "done"
    ret,        \* who called parse_file: "entry" | "dir" | "mat" | "client"
    queue,      \* the paths a glob returned that the loop has yet to visit
    filepath,   \* parse_file's filepath
    cursor,     \* self.file.tell()
    data_strings,   \* self.data_strings
    blocks_left,    \* the passes left of `for i in range(data_count)`
    obj,        \* parse_object_block's obj
    prop_end,   \* parse_object_block's prop_end
    obj_arr,    \* self.obj_arr
    object_map, \* self.object_map
    loaded_files,           \* self.loaded_files
    material_definitions,   \* self.material_definitions
    variant_material_map,   \* self.variant_material_map
    armature_object,        \* whether self.armature_object is set
    result,     \* what read() returned
    decoded,    \* history: the file each parse_file call went on to open
    last_prop,  \* history: the property the last pass of the loop framed
    calls,      \* history: the calls of parse_file made after read()
    call,       \* history: the last such call
    \* ---- TLGAnimReader.read on an animation file ------------------------
    a_pc,       \* "start" | "clips" | "done"
    a_magic,    \* the first four bytes the file was written with
    a_field,    \* the uint32 the file was written with at offset 0x10
    a_flag,     \* the flag the file's first track was written with
    a_frames,   \* the frame count the file's clips were written with
    a_cut,      \* the length the file is cut to
    a_mode,     \* the branch read() took: "none" | "single" | "multi"
    a_num,      \* num_anims
    a_i,        \* the i of `for i in range(num_anims)`
    a_applied,  \* the clips apply_animation_to_bones was called with
    a_clip,     \* the last anim_data handed to apply_animation_to_bones
    a_keys,     \* the fcurves of the last action created
    a_result,   \* what read() returned
    \* ---- build_meshes on one RenderExt ----------------------------------
    m_pc,       \* "start" | "batches" | "returned" | "raised"
    m_ext,      \* render_ext_obj: the four integers of the RenderExt
    m_polygons, \* mesh_data.polygons: the material_index of each polygon
    m_materials, \* len(blender_obj.data.materials)
    m_k,        \* the batches the loop has gone through
    m_batch     \* the last batch: what it held and what the loop did

vars_n == <<n_pc, n_name, n_once, n_twice>>
vars_q == <<q_pc, q_xyz, q_out>>
vars_d == <<d_pc, d_file, d_kind, d_out>>
vars_w == <<w_pc, w_size, w_numVerts, w_fmt, w_tell, w_i, w_rec, w_adds,
            w_count>>
vars_r == <<scn, cut, pc, ret, queue, filepath, cursor, data_strings, blocks_left,
            obj, prop_end, obj_arr, object_map, loaded_files,
            material_definitions, variant_material_map, armature_object,
            result, decoded, last_prop, calls, call>>
vars_a == <<a_pc, a_magic, a_field, a_flag, a_frames, a_cut, a_mode, a_num,
            a_i, a_applied, a_clip, a_keys, a_result>>
vars_m == <<m_pc, m_ext, m_polygons, m_materials, m_k, m_batch>>

\* what the actions of one part leave alone: the variables of the others
others_n == <<vars_q, vars_d, vars_w, vars_r, vars_a, vars_m>>
others_q == <<vars_n, vars_d, vars_w, vars_r, vars_a, vars_m>>
others_d == <<vars_n, vars_q, vars_w, vars_r, vars_a, vars_m>>
others_w == <<vars_n, vars_q, vars_d, vars_r, vars_a, vars_m>>
others_r == <<vars_n, vars_q, vars_d, vars_w, vars_a, vars_m>>
others_a == <<vars_n, vars_q, vars_d, vars_w, vars_r, vars_m>>
others_m == <<vars_n, vars_q, vars_d, vars_w, vars_r, vars_a>>

vars == <<n_pc, n_name, n_once, n_twice, q_pc, q_xyz, q_out,
          d_pc, d_file, d_kind, d_out,
          w_pc, w_size, w_numVerts, w_fmt, w_tell, w_i, w_rec, w_adds, w_count,
          scn, cut, pc, ret, queue, filepath, cursor, data_strings, blocks_left,
          obj, prop_end, obj_arr, object_map, loaded_files,
          material_definitions, variant_material_map, armature_object,
          result, decoded, last_prop, calls, call,
          a_pc, a_magic, a_field, a_flag, a_frames, a_cut, a_mode, a_num,
          a_i, a_applied, a_clip, a_keys, a_result,
          m_pc, m_ext, m_polygons, m_materials, m_k, m_batch>>

None == "None"

\* Only({B : x \in {E}}) is B with x standing for the value of E
Only(S) == CHOOSE x \in S : TRUE

(***************************************************************************)
(* Text helpers: Python's `sub in s` and `s.split(sub)[0]`.                *)
(***************************************************************************)
MatchAt(s, sub, i) ==
    /\ i + Len(sub) - 1 <= Len(s)
    /\ \A k \in 1..Len(sub) : s[i + k - 1] = sub[k]

\* `sub in s`
StrIn(sub, s) == \E i \in 1..(Len(s) + 1) : MatchAt(s, sub, i)

\* s.split(sub)[0]: the text before the leftmost occurrence of sub (all of s
\* when sub does not occur).
SplitHead(s, sub) ==
    Only({ IF hits = {} THEN s
           ELSE SubSeq(s, 1, (CHOOSE i \in hits : \A j \in hits : i <= j) - 1)
           : hits \in {{i \in 1..Len(s) : MatchAt(s, sub, i)}} })

\* s.endswith(suffix)
EndsWith(s, suffix) ==
    /\ Len(suffix) <= Len(s)
    /\ SubSeq(s, Len(s) - Len(suffix) + 1, Len(s)) = suffix

(***************************************************************************)
(* Bytes.  Printable ASCII, code 32 first; Ord and Chr convert between a   *)
(* character and its code, Enc encodes a text as bytes.  The double quote, *)
(* the backslash and the back quote are spelled out.                       *)
(***************************************************************************)
Printable ==
    <<" ", "!", "dquote", "#", "$", "%", "&", "'", "(", ")", "*", "+", ",", "-",
      ".", "/", "0", "1", "2", "3", "4", "5", "6", "7", "8", "9", ":", ";",
      "<", "=", ">", "?", "@", "A", "B", "C", "D", "E", "F", "G", "H", "I",
      "J", "K", "L", "M", "N", "O", "P", "Q", "R", "S", "T", "U", "V", "W",
      "X", "Y", "Z", "[", "bslash", "]", "^", "_", "bquote", "a", "b", "c", "d", "e",
      "f", "g", "h", "i", "j", "k", "l", "m", "n", "o", "p", "q", "r", "s",
      "t", "u", "v", "w", "x", "y", "z", "{", "|", "}", "~">>

Chr(b) == Printable[b - 31]
Ord(c) == CHOOSE b \in 32..126 : Printable[b - 31] = c
Enc(text) == [i \in 1..Len(text) |-> Ord(text[i])]

Min2(a, b) == IF a <= b THEN a ELSE b
Max2(a, b) == IF a >= b THEN a ELSE b

\* Python's a // b (floor division), b # 0
FloorDiv(a, b) ==
    IF b > 0 THEN a \div b ELSE (-a) \div (-b)

\* f.read(n) at offset pos (0-based) of a file holding bytes: the bytes read
\* and the offset afterwards.  Past the end nothing is read and the offset
\* stays.
FileRead(bytes, pos, n) ==
    IF pos >= Len(bytes) \/ n <= 0
    THEN [data |-> <<>>, pos |-> pos]
    ELSE LET e == Min2(pos + n, Len(bytes))
         IN  [data |-> SubSeq(bytes, pos + 1, e), pos |-> e]

\* struct.unpack('<H'), ('<i'), and the inverse of '<i' and '<I' (little endian)
U16(b) == b[1] + 256 * b[2]
I32(b) ==
    b[1] + 256 * b[2] + 65536 * b[3]
    + 16777216 * (IF b[4] >= 128 THEN b[4] - 256 ELSE b[4])
LE16(n) == <<n % 256, (n \div 256) % 256>>
LE32(n) ==
    <<n % 256, (n \div 256) % 256, (n \div 65536) % 256,
      (n \div 16777216) % 256>>

(***************************************************************************)
(* The variant markers.                                                    *)
(***************************************************************************)
Sfx_fresnel == <<"_", "f", "r", "e", "s", "n", "e", "l">>
Sfx_fur == <<"_", "f", "u", "r">>
Txt_Shape == <<"S", "h", "a", "p", "e">>
Sfx_fresnelShape == Sfx_fresnel \o Txt_Shape
Sfx_furShape == Sfx_fur \o Txt_Shape

\* A plausible slip: the short markers are tried before the long ones and
\* "_fur" before "_fresnel".
suffixes_to_strip_FurFirst ==
    <<Sfx_fur, Sfx_fresnel, Sfx_furShape, Sfx_fresnelShape>>

suffixes_to_strip ==
    <<Sfx_fresnelShape, Sfx_furShape, Sfx_fresnel, Sfx_fur>>

\* the for loop of get_base_name, from suffix number k on
RECURSIVE StripFrom(_, _)
StripFrom(name, k) ==
    IF k > Len(suffixes_to_strip) THEN name
    ELSE IF StrIn(suffixes_to_strip[k], name)
         THEN SplitHead(name, suffixes_to_strip[k])
         ELSE StripFrom(name, k + 1)

get_base_name(name) == StripFrom(name, 1)

(***************************************************************************)
(* The names get_base_name is applied to: up to MaxPieces pieces, each a   *)
(* plain letter, a marker or the word Shape.                               *)
(***************************************************************************)
MaxPieces == 3

Pieces == {<<"H">>, Sfx_fur, Sfx_fresnel, Txt_Shape}

RECURSIVE Concat(_)
Concat(ps) == IF ps = <<>> THEN <<>> ELSE Head(ps) \o Concat(Tail(ps))

NameInputs ==
    {Concat(ps) : ps \in UNION {[1..n -> Pieces] : n \in 1..MaxPieces}}

NameInit ==
    /\ n_pc = "start"
    /\ n_name \in NameInputs
    /\ n_once = None
    /\ n_twice = None

NameIdle ==
    /\ n_pc = "idle"
    /\ n_name = <<>>
    /\ n_once = None
    /\ n_twice = None

StripOnce ==
    /\ n_pc = "start"
    /\ n_once' = get_base_name(n_name)
    /\ n_pc' = "once"
    /\ UNCHANGED <<n_name, n_twice>>
    /\ UNCHANGED others_n

StripTwice ==
    /\ n_pc = "once"
    /\ n_twice' = get_base_name(n_once)
    /\ n_pc' = "twice"
    /\ UNCHANGED <<n_name, n_once>>
    /\ UNCHANGED others_n

NameNext == StripOnce \/ StripTwice

(***************************************************************************)
(* C4: get_base_name is idempotent, also for names with several markers.   *)
(***************************************************************************)
C4_Idempotent == n_pc = "twice" => n_twice = n_once

(***************************************************************************)
(* C5: the markers are tried in the order _fresnelShape, _furShape,        *)
(* _fresnel, _fur; the result is the text before the leftmost occurrence   *)
(* of the first marker the name contains, and the name itself when it      *)
(* contains none.                                                          *)
(***************************************************************************)
C5_Order == <<Sfx_fresnelShape, Sfx_furShape, Sfx_fresnel, Sfx_fur>>

C5_At(s, m, i) == i + Len(m) - 1 <= Len(s) /\ SubSeq(s, i, i + Len(m) - 1) = m

C5_Occurs(k, s) == \E i \in 1..Len(s) : C5_At(s, C5_Order[k], i)

C5_FirstMatchWins ==
    n_pc # "start" /\ n_pc # "idle" =>
        LET hits == {k \in 1..4 : C5_Occurs(k, n_name)} IN
        IF hits = {} THEN n_once = n_name
        ELSE LET k == CHOOSE h \in hits : \A g \in hits : h <= g
                 m == C5_Order[k]
             IN  /\ Len(n_once) + Len(m) <= Len(n_name)
                 /\ SubSeq(n_name, 1, Len(n_once) + Len(m)) = n_once \o m
                 /\ \A i \in 1..Len(n_once) : ~C5_At(n_name, m, i)

\* a name with two markers has been stripped at the one tried first
C5_Witness ==
    /\ n_pc = "once"
    /\ n_name = <<"H">> \o Sfx_fur \o Sfx_fresnel
    /\ n_once = <<"H">> \o Sfx_fur

(***************************************************************************)
(* TLGAnimReader._unpack_data, the reconstruction of w from a stored       *)
(* (x, y, z).  A float is NaN or a number of hundredths; a product of two  *)
(* floats, and the squared magnitude, is a number of ten-thousandths.      *)
(***************************************************************************)
NaN == [nan |-> TRUE, v |-> 0]
Flt(v) == [nan |-> FALSE, v |-> v]

FMul(a, b) == IF a.nan \/ b.nan THEN NaN ELSE Flt(a.v * b.v)
FAdd(a, b) == IF a.nan \/ b.nan THEN NaN ELSE Flt(a.v + b.v)
FSub(a, b) == IF a.nan \/ b.nan THEN NaN ELSE Flt(a.v - b.v)
\* a <= b is False when either side is NaN
FLe(a, b) == ~a.nan /\ ~b.nan /\ a.v <= b.v
\* Python's min(a, b): b if b < a else a
PyMin(a, b) == IF ~a.nan /\ ~b.nan /\ b.v < a.v THEN b ELSE a

MagOne == Flt(100 * 100)        \* 1.0
MagTol == Flt(100 * 100 + 10)   \* 1.001

ISqrt(n) == CHOOSE r \in 0..n : r * r <= n /\ n < (r + 1) * (r + 1)

\* math.sqrt(a), a in ten-thousandths: the root in hundredths (rounded down),
\* or ValueError for a negative argument.  NaN gives NaN.
MathSqrt(a) ==
    IF a.nan THEN [called |-> TRUE, raised |-> FALSE, arg |-> a, w |-> NaN]
    ELSE IF a.v < 0
         THEN [called |-> TRUE, raised |-> TRUE, arg |-> a, w |-> NaN]
         ELSE [called |-> TRUE, raised |-> FALSE, arg |-> a,
               w |-> Flt(ISqrt(a.v))]

NoSqrt(w) == [called |-> FALSE, raised |-> FALSE, arg |-> Flt(0), w |-> w]

\* the reconstruction without the clamp: sqrt(1.0 - mag_sq)
quat_w_NoClamp(x, y, z) ==
    LET mag_sq == FAdd(FAdd(FMul(x, x), FMul(y, y)), FMul(z, z))
    IN  IF FLe(mag_sq, MagTol)
        THEN MathSqrt(FSub(MagOne, mag_sq))
        ELSE NoSqrt(Flt(0))

quat_w(x, y, z) ==
    LET mag_sq == FAdd(FAdd(FMul(x, x), FMul(y, y)), FMul(z, z))
    IN  IF FLe(mag_sq, MagTol)
        THEN MathSqrt(FSub(MagOne, PyMin(MagOne, mag_sq)))
        ELSE NoSqrt(Flt(0))

\* the stored components the reconstruction is applied to, in hundredths
QuatComponents ==
    {NaN} \cup {Flt(v) : v \in {-100, -60, 0, 1, 2, 4, 60, 80, 100}}

QuatInit ==
    /\ q_pc = "start"
    /\ q_xyz \in QuatComponents \X QuatComponents \X QuatComponents
    /\ q_out = NoSqrt(NaN)

QuatIdle ==
    /\ q_pc = "idle"
    /\ q_xyz = <<NaN, NaN, NaN>>
    /\ q_out = NoSqrt(NaN)

UnpackQuat ==
    /\ q_pc = "start"
    /\ q_out' = quat_w(q_xyz[1], q_xyz[2], q_xyz[3])
    /\ q_pc' = "done"
    /\ UNCHANGED q_xyz
    /\ UNCHANGED others_q

QuatNext == UnpackQuat

(***************************************************************************)
(* C10: with m = x*x + y*y + z*z, w = sqrt(max(0, 1 - m)) when m <= 1.001  *)
(* and w = 0 otherwise; the square root is never taken of a negative       *)
(* number; (0,0,0) gives w = 1, m = 1 gives w = 0, m = 1.0005 gives w = 0. *)
(***************************************************************************)
C10_M == q_xyz[1].v * q_xyz[1].v + q_xyz[2].v * q_xyz[2].v
         + q_xyz[3].v * q_xyz[3].v

C10_AnyNaN == q_xyz[1].nan \/ q_xyz[2].nan \/ q_xyz[3].nan

C10_QuatW ==
    q_pc = "done" =>
        /\ ~q_out.raised
        /\ q_out.called => ~q_out.arg.nan /\ q_out.arg.v >= 0
        /\ IF ~C10_AnyNaN /\ C10_M <= 10010
           THEN LET a == IF 10000 - C10_M > 0 THEN 10000 - C10_M ELSE 0
                IN  /\ q_out.called /\ q_out.arg = Flt(a)
                    /\ ~q_out.w.nan
                    /\ q_out.w.v * q_out.w.v <= a
                    /\ a < (q_out.w.v + 1) * (q_out.w.v + 1)
           ELSE q_out.w = Flt(0) /\ ~q_out.called
        /\ (~C10_AnyNaN /\ C10_M = 0) => q_out.w = Flt(100)
        /\ (~C10_AnyNaN /\ C10_M \in 10000..10010) => q_out.w = Flt(0)

\* a sample of squared magnitude 1.0005 has been reconstructed with w = 0
C10_Witness ==
    /\ q_pc = "done"
    /\ ~C10_AnyNaN /\ C10_M = 10005
    /\ q_out.called /\ q_out.w = Flt(0)

(***************************************************************************)
(* TLGReader.get_data_buffer.  A float is kept as the four bytes read; the *)
(* product of a position by self.scale is kept as such.                    *)
(***************************************************************************)
Magic_CDAT == Enc(<<"C", "D", "A", "T">>)

Stride_GEOMETRY == 32
Stride_ELEMS == 2

BufNone == [ok |-> FALSE, verts |-> <<>>, uvs |-> <<>>, faces |-> <<>>]
TimesScale(f32) == [f32 |-> f32, scaled |-> TRUE]

\* A plausible slip: the triple is stored as read, (a, b, c).
Winding_Kept(fa, fb, fc) == <<fa, fb, fc>>

\* faces.append((fa, fc, fb))
Winding(fa, fb, fc) == <<fa, fc, fb>>

\* The ELEMS loop from offset pos with n triangles left: the faces, or the
\* struct.error of a short read (caught: None is returned).
RECURSIVE ReadFaces(_, _, _, _)
ReadFaces(bytes, pos, n, faces) ==
    IF n <= 0 THEN [ok |-> TRUE, verts |-> <<>>, uvs |-> <<>>, faces |-> faces]
    ELSE LET ra == FileRead(bytes, pos, 2)
             rb == FileRead(bytes, ra.pos, 2)
             rc == FileRead(bytes, rb.pos, 2)
         IN  IF Len(ra.data) < 2 \/ Len(rb.data) < 2 \/ Len(rc.data) < 2
             THEN BufNone
             ELSE ReadFaces(bytes, rc.pos, n - 1,
                      Append(faces, Winding(U16(ra.data), U16(rb.data),
                                            U16(rc.data))))

\* The GEOMETRY loop: three floats, 12 bytes skipped, two floats per vertex.
RECURSIVE ReadVerts(_, _, _, _, _)
ReadVerts(bytes, pos, n, verts, uvs) ==
    IF n <= 0 THEN [ok |-> TRUE, verts |-> verts, uvs |-> uvs, faces |-> <<>>]
    ELSE LET rx == FileRead(bytes, pos, 4)
             ry == FileRead(bytes, rx.pos, 4)
             rz == FileRead(bytes, ry.pos, 4)
             rs == FileRead(bytes, rz.pos, 12)
             ru == FileRead(bytes, rs.pos, 4)
             rv == FileRead(bytes, ru.pos, 4)
         IN  IF \E r \in {rx, ry, rz, ru, rv} : Len(r.data) < 4
             THEN BufNone
             ELSE ReadVerts(bytes, rv.pos, n - 1,
                      Append(verts, <<TimesScale(rx.data), TimesScale(ry.data),
                                      TimesScale(rz.data)>>),
                      Append(uvs, <<ru.data, rv.data>>))

\* A plausible slip: the kind asked for picks the decoder, the stride of the
\* header is not compared with the kind's.
get_data_buffer_AnyStride(exists, bytes, buffer_type) ==
    IF ~exists THEN BufNone
    ELSE LET header == FileRead(bytes, 0, 16).data IN
         IF Len(header) < 16 THEN BufNone
         ELSE LET cdat == SubSeq(header, 1, 4)
                  length == I32(SubSeq(header, 13, 16))
              IN  IF cdat # Magic_CDAT THEN BufNone
                  ELSE IF buffer_type = "GEOMETRY"
                  THEN ReadVerts(bytes, 16, FloorDiv(length, Stride_GEOMETRY),
                                 <<>>, <<>>)
                  ELSE ReadFaces(bytes, 16, FloorDiv(length, Stride_ELEMS * 3),
                                 <<>>)

\* exists: os.path.exists(path); bytes: the content of the file
get_data_buffer(exists, bytes, buffer_type) ==
    IF ~exists THEN BufNone
    ELSE LET header == FileRead(bytes, 0, 16).data IN
         IF Len(header) < 16 THEN BufNone
         ELSE LET cdat == SubSeq(header, 1, 4)
                  stride == I32(SubSeq(header, 9, 12))
                  length == I32(SubSeq(header, 13, 16))
              IN  IF cdat # Magic_CDAT THEN BufNone
                  ELSE IF buffer_type = "GEOMETRY" /\ stride = Stride_GEOMETRY
                  THEN ReadVerts(bytes, 16, FloorDiv(length, stride), <<>>, <<>>)
                  ELSE IF buffer_type = "ELEMS" /\ stride = Stride_ELEMS
                  THEN ReadFaces(bytes, 16, FloorDiv(length, stride * 3), <<>>)
                  ELSE BufNone

(***************************************************************************)
(* The buffer files get_data_buffer is applied to: a header and up to      *)
(* MaxFaces stored triples of indices (or one vertex), well formed or with *)
(* one defect.                                                             *)
(***************************************************************************)
MaxFaces == 2

IndexVals == {0, 1, 258}

BufHeader(magic, stride, length) ==
    magic \o LE16(0) \o LE16(0) \o LE32(stride) \o LE32(length)

RECURSIVE EncIndices(_)
EncIndices(ix) == IF ix = <<>> THEN <<>> ELSE LE16(Head(ix)) \o EncIndices(Tail(ix))

IndexLists == UNION {[1..(3 * n) -> IndexVals] : n \in 0..MaxFaces}

OneVertex == [i \in 1..32 |-> i]

\* the shapes of a file, for stored indices ix, and the kind asked of it
BufShapes(ix) ==
    LET body == EncIndices(ix)
        good == BufHeader(Magic_CDAT, 2, Len(body)) \o body
    IN  { <<TRUE, good, "ELEMS">>,
          <<TRUE, good, "GEOMETRY">>,
          <<FALSE, good, "ELEMS">>,
          <<TRUE, BufHeader(Enc(<<"C", "D", "A", "X">>), 2, Len(body)) \o body,
            "ELEMS">>,
          <<TRUE, BufHeader(Magic_CDAT, 4, Len(body)) \o body, "ELEMS">>,
          <<TRUE, BufHeader(Magic_CDAT, 2, Len(body) + 6) \o body, "ELEMS">>,
          <<TRUE, BufHeader(Magic_CDAT, 2, Len(body) + 2) \o body, "ELEMS">>,
          <<TRUE, SubSeq(good, 1, Min2(Len(good), 15)), "ELEMS">>,
          <<TRUE, BufHeader(Magic_CDAT, 32, 32) \o OneVertex, "GEOMETRY">>,
          <<TRUE, BufHeader(Magic_CDAT, 32, 32) \o OneVertex, "ELEMS">>,
          <<TRUE, BufHeader(Magic_CDAT, 2, 0 - Len(body)) \o body, "ELEMS">>,
          <<TRUE, BufHeader(Magic_CDAT, 2, Len(body) - 1) \o body, "ELEMS">>,
          <<TRUE, BufHeader(Magic_CDAT, 32, 0 - 32) \o OneVertex, "GEOMETRY">>,
          <<TRUE, BufHeader(Magic_CDAT, 32, 31 + Len(body)) \o OneVertex,
            "GEOMETRY">>,
          <<TRUE, BufHeader(Magic_CDAT, 32, 32) \o SubSeq(OneVertex, 1, 28),
            "GEOMETRY">>,
          <<TRUE, BufHeader(Magic_CDAT, 16, 32) \o OneVertex, "GEOMETRY">>,
          <<TRUE, BufHeader(Enc(<<"C", "D", "A", "X">>), 32, 32) \o OneVertex,
            "GEOMETRY">> }

DataInit ==
    /\ d_pc = "start"
    /\ \E ix \in IndexLists : \E sh \in BufShapes(ix) :
          d_file = [exists |-> sh[1], bytes |-> sh[2]] /\ d_kind = sh[3]
    /\ d_out = BufNone

DataIdle ==
    /\ d_pc = "idle"
    /\ d_file = [exists |-> FALSE, bytes |-> <<>>]
    /\ d_kind = "ELEMS"
    /\ d_out = BufNone

GetDataBuffer ==
    /\ d_pc = "start"
    /\ d_out' = get_data_buffer(d_file.exists, d_file.bytes, d_kind)
    /\ d_pc' = "done"
    /\ UNCHANGED <<d_file, d_kind>>
    /\ UNCHANGED others_d

DataNext == GetDataBuffer

(***************************************************************************)
(* C9: index-buffer decoding maps every stored triple (a, b, c) to         *)
(* (a, c, b), in file order, and reversing the decoded triple once more    *)
(* gives the stored triple back.                                           *)
(***************************************************************************)
C9_Stored(k) ==
    LET at(j) == d_file.bytes[16 + 6 * (k - 1) + 2 * j + 1]
                 + 256 * d_file.bytes[16 + 6 * (k - 1) + 2 * j + 2]
    IN  <<at(0), at(1), at(2)>>

C9_Reverse(t) == <<t[1], t[3], t[2]>>

C9_WindingReversed ==
    (d_pc = "done" /\ d_out.ok /\ d_kind = "ELEMS") =>
        /\ 16 + 6 * Len(d_out.faces) <= Len(d_file.bytes)
        /\ \A k \in 1..Len(d_out.faces) :
              LET s == C9_Stored(k)
              IN  /\ d_out.faces[k] = <<s[1], s[3], s[2]>>
                  /\ C9_Reverse(d_out.faces[k]) = s

\* two triples have been decoded, the first with three different indices
C9_Witness ==
    /\ d_pc = "done" /\ d_out.ok /\ d_kind = "ELEMS"
    /\ Len(d_out.faces) = 2
    /\ d_out.faces[1] = <<0, 258, 1>>
    /\ C9_Stored(1) = <<0, 1, 258>>

(***************************************************************************)
(* TLGReader.parse_and_apply_weights: the stride inferred from the file    *)
(* size and the vertex count, then one record unpacked per vertex.         *)
(***************************************************************************)
WeightsHeader == 16

\* the stride inference: the struct size and the number of influences, or
\* the unsupported stride
InferStride(file_size, numVerts) ==
    LET stride == FloorDiv(file_size - WeightsHeader, numVerts)
    IN  IF stride = 32 THEN [ok |-> TRUE, stride |-> stride, size |-> 32,
                              num_influences |-> 4]
        ELSE IF stride = 64 THEN [ok |-> TRUE, stride |-> stride, size |-> 64,
                                   num_influences |-> 8]
        ELSE [ok |-> FALSE, stride |-> stride, size |-> 0,
              num_influences |-> 0]

NoFmt == [ok |-> FALSE, stride |-> 0, size |-> 0, num_influences |-> 0]

MaxVerts == 2
MaxSlack == 3

\* A field of struct '<f': its sign bit and its other 31 bits.  Read as a
\* float and compared, weights[j] > 1e-5: no float32 equals the double 1e-5
\* and the largest one below it has the bits Eps_Below; with the sign bit
\* set the float is negative or -0.0; bits above those of +inf are NaN, for
\* which > is False.
F32(neg, bits) == [neg |-> neg, bits |-> bits]
Eps_Below == 925353388
F32_Inf == 2139095040

\* A plausible slip: the weight is not compared with the epsilon.
AboveEps_AnyWeight(w) == TRUE

AboveEps(w) == ~w.neg /\ w.bits > Eps_Below /\ w.bits <= F32_Inf

\* the weights a slot is given: 0.0, the two neighbours of 1e-5, 0.5, NaN
\* and -0.5
W_Zero == F32(FALSE, 0)
W_Below == F32(FALSE, Eps_Below)
W_Above == F32(FALSE, Eps_Below + 1)
W_Half == F32(FALSE, 1056964608)
W_NaN == F32(FALSE, 2143289344)
W_MinusHalf == F32(TRUE, 1056964608)
WeightBits == {W_Zero, W_Below, W_Above, W_Half, W_NaN, W_MinusHalf}

\* skin_cluster.boneNames, handed over as bone_names_map: the indices 0 and
\* 2 name the same bone; apply_skinning_data has made a vertex group for
\* each name
bone_names_map == <<<<"b", "0">>, <<"b", "1">>, <<"b", "0">>>>
vertex_groups == {bone_names_map[k] : k \in 1..Len(bone_names_map)}
BoneIndices == 0..Len(bone_names_map)

\* the records of a file: the first slot takes every index and weight, the
\* second an index of the first bone and a weight of 0.0, 0.5 or just above
\* 1e-5, the last slot has the index 1 and the weight 0.5, the others the
\* weight 0.0
Records(num_influences) ==
    {[k \in 1..(2 * num_influences) |->
         IF k = 1 THEN i1
         ELSE IF k = 2 THEN i2
         ELSE IF k = num_influences THEN 1
         ELSE IF k <= num_influences THEN 0
         ELSE IF k = num_influences + 1 THEN w1
         ELSE IF k = num_influences + 2 THEN w2
         ELSE IF k = 2 * num_influences THEN W_Half
         ELSE W_Zero]
     : i1 \in BoneIndices, i2 \in {0, 2}, w1 \in WeightBits,
       w2 \in {W_Zero, W_Above, W_Half}}

\* the loop over j from slot j (0-based) on: the calls vgroup.add([i],
\* weights[j], 'ADD') it makes, as <<group, vertex, weight, mode>>
RECURSIVE InfluencesFrom(_, _, _, _, _, _)
InfluencesFrom(unpacked_data, num_influences, j, i, names, groups) ==
    IF j >= num_influences THEN <<>>
    ELSE (IF /\ AboveEps(unpacked_data[num_influences + j + 1])
             /\ unpacked_data[j + 1] < Len(names)
             /\ names[unpacked_data[j + 1] + 1] \in groups
          THEN <<[group |-> names[unpacked_data[j + 1] + 1], vertex |-> i,
                  weight |-> unpacked_data[num_influences + j + 1],
                  mode |-> "ADD"]>>
          ELSE <<>>)
         \o InfluencesFrom(unpacked_data, num_influences, j + 1, i, names,
                           groups)

Influences(unpacked_data, num_influences, i, names, groups) ==
    InfluencesFrom(unpacked_data, num_influences, 0, i, names, groups)

WeightsInit ==
    /\ w_pc = "start"
    /\ w_size \in 0..(WeightsHeader + 64 * MaxVerts + MaxSlack)
    /\ w_numVerts \in -1..MaxVerts
    /\ w_fmt = NoFmt
    /\ w_tell = 0
    /\ w_i = 0
    /\ w_rec = <<>>
    /\ w_adds = <<>>
    /\ w_count = 0

WeightsIdle ==
    /\ w_pc = "idle"
    /\ w_size = 0
    /\ w_numVerts = 0
    /\ w_fmt = NoFmt
    /\ w_tell = 0
    /\ w_i = 0
    /\ w_rec = <<>>
    /\ w_adds = <<>>
    /\ w_count = 0

\* numVerts == 0: nothing is opened or applied
WeightsNoVerts ==
    /\ w_pc = "start"
    /\ w_numVerts = 0
    /\ w_pc' = "returned"
    /\ UNCHANGED <<w_size, w_numVerts, w_fmt, w_tell, w_i, w_rec, w_adds,
                   w_count>>
    /\ UNCHANGED others_w

\* the file is opened and the stride inferred: unsupported, or f.seek(16)
WeightsInfer ==
    /\ w_pc = "start"
    /\ w_numVerts # 0
    /\ w_fmt' = InferStride(w_size, w_numVerts)
    /\ IF w_fmt'.ok
       THEN w_pc' = "loop" /\ w_tell' = WeightsHeader
       ELSE w_pc' = "returned" /\ w_tell' = 0
    /\ UNCHANGED <<w_size, w_numVerts, w_i, w_rec, w_adds, w_count>>
    /\ UNCHANGED others_w

\* one pass of `for i in range(numVerts)`: a record is unpacked and its
\* influences are applied
WeightsVertex ==
    /\ w_pc = "loop"
    /\ w_i < w_numVerts
    /\ w_tell + w_fmt.size <= w_size
    /\ w_tell' = w_tell + w_fmt.size
    /\ \E unpacked_data \in Records(w_fmt.num_influences) :
           /\ w_rec' = unpacked_data
           /\ w_adds' = Influences(unpacked_data, w_fmt.num_influences, w_i,
                                   bone_names_map, vertex_groups)
    /\ w_count' = w_count + Len(w_adds')
    /\ w_i' = w_i + 1
    /\ UNCHANGED <<w_pc, w_size, w_numVerts, w_fmt>>
    /\ UNCHANGED others_w

\* the loop ends, or breaks at a record that would run past the file
WeightsEnd ==
    /\ w_pc = "loop"
    /\ w_i >= w_numVerts \/ w_tell + w_fmt.size > w_size
    /\ w_pc' = "returned"
    /\ UNCHANGED <<w_size, w_numVerts, w_fmt, w_tell, w_i, w_rec, w_adds,
                   w_count>>
    /\ UNCHANGED others_w

WeightsNext == WeightsNoVerts \/ WeightsInfer \/ WeightsVertex \/ WeightsEnd

(***************************************************************************)
(* C8: the stride inference accepts exactly the file sizes 16 + N*32       *)
(* (stride 32, 4 influences) and 16 + N*64 (stride 64, 8 influences);      *)
(* every other (file_size, N) with N > 0 is rejected and applies nothing.  *)
(***************************************************************************)
C8_ExactShapes ==
    (w_pc \in {"loop", "returned"} /\ w_numVerts > 0) =>
        IF w_size = 16 + w_numVerts * 32
        THEN w_fmt.ok /\ w_fmt.stride = 32 /\ w_fmt.num_influences = 4
        ELSE IF w_size = 16 + w_numVerts * 64
        THEN w_fmt.ok /\ w_fmt.stride = 64 /\ w_fmt.num_influences = 8
        ELSE ~w_fmt.ok /\ w_i = 0

(***************************************************************************)
(* The scene container.  The words the reader knows: the ten type names    *)
(* of get_obj_struct, the property names of parse_object_block and the     *)
(* attribute names type and name.                                          *)
(***************************************************************************)
T_SceneRoot == <<"S", "c", "e", "n", "e", "R", "o", "o", "t">>
T_Skeleton == <<"S", "k", "e", "l", "e", "t", "o", "n">>
T_Bone == <<"B", "o", "n", "e">>
T_Mesh == <<"M", "e", "s", "h">>
T_RenderExt == <<"R", "e", "n", "d", "e", "r", "E", "x", "t">>
T_SkinCluster == <<"S", "k", "i", "n", "C", "l", "u", "s", "t", "e", "r">>
T_GeometryBuffer == <<"G", "e", "o", "m", "e", "t", "r", "y", "B", "u", "f", "f", "e", "r">>
T_MaterialDefinition == <<"M", "a", "t", "e", "r", "i", "a", "l", "D", "e", "f", "i", "n", "i", "t", "i", "o", "n">>
T_RenderBatch == <<"R", "e", "n", "d", "e", "r", "B", "a", "t", "c", "h">>
T_Texture == <<"T", "e", "x", "t", "u", "r", "e">>

P_parent == <<"p", "a", "r", "e", "n", "t">>
P_geometryBuffer == <<"g", "e", "o", "m", "e", "t", "r", "y", "B", "u", "f", "f", "e", "r">>
P_verts == <<"v", "e", "r", "t", "s">>
P_elems == <<"e", "l", "e", "m", "s">>
P_albedo == <<"a", "l", "b", "e", "d", "o">>
P_normal == <<"n", "o", "r", "m", "a", "l">>
P_emissive == <<"e", "m", "i", "s", "s", "i", "v", "e">>
P_materialDefinition == <<"m", "a", "t", "e", "r", "i", "a", "l", "D", "e", "f", "i", "n", "i", "t", "i", "o", "n">>
P_specular == <<"s", "p", "e", "c", "u", "l", "a", "r">>
P_children == <<"c", "h", "i", "l", "d", "r", "e", "n">>
P_extensions == <<"e", "x", "t", "e", "n", "s", "i", "o", "n", "s">>
P_batches == <<"b", "a", "t", "c", "h", "e", "s">>
P_bones == <<"b", "o", "n", "e", "s">>
P_boneNames == <<"b", "o", "n", "e", "N", "a", "m", "e", "s">>
P_bindPoseMatrices == <<"b", "i", "n", "d", "P", "o", "s", "e", "M", "a", "t", "r", "i", "c", "e", "s">>
P_baseVertexIndex == <<"b", "a", "s", "e", "V", "e", "r", "t", "e", "x", "I", "n", "d", "e", "x">>
P_numVerts == <<"n", "u", "m", "V", "e", "r", "t", "s">>
P_baseElemIndex == <<"b", "a", "s", "e", "E", "l", "e", "m", "I", "n", "d", "e", "x">>
P_numElems == <<"n", "u", "m", "E", "l", "e", "m", "s">>
P_assetName == <<"a", "s", "s", "e", "t", "N", "a", "m", "e">>
P_rootPosition == <<"r", "o", "o", "t", "P", "o", "s", "i", "t", "i", "o", "n">>
P_rootRotation == <<"r", "o", "o", "t", "R", "o", "t", "a", "t", "i", "o", "n">>
P_start == <<"s", "t", "a", "r", "t">>
P_numTris == <<"n", "u", "m", "T", "r", "i", "s">>
A_type == <<"t", "y", "p", "e">>
A_name == <<"n", "a", "m", "e">>

KnownTypes ==
    {T_SceneRoot, T_Skeleton, T_Bone, T_Mesh, T_RenderExt, T_SkinCluster,
     T_GeometryBuffer, T_MaterialDefinition, T_RenderBatch, T_Texture}

SingleRefProps ==
    {P_parent, P_geometryBuffer, P_verts, P_elems, P_albedo, P_normal,
     P_emissive, P_materialDefinition, P_specular}
RefListProps == {P_children, P_extensions, P_batches}
ScalarIntProps == {P_baseVertexIndex, P_numVerts, P_baseElemIndex, P_numElems}

\* DataStringRef(): type and name empty
Ref(t, n) == [type |-> t, name |-> n]
EmptyRef == Ref(<<>>, <<>>)

\* a float is the four bytes it is stored in
F32_Zero == <<0, 0, 0, 0>>
F32_One == <<0, 0, 128, 63>>

\* an integer attribute that read_long may have set to None
OptInt(v) == [none |-> FALSE, v |-> v]
OptNone == [none |-> TRUE, v |-> 0]

\* the attributes each class's __init__ sets, besides type and name
ClassDefaults(t) ==
    CASE t = T_GeometryBuffer ->
            (P_verts :> EmptyRef) @@ (P_elems :> EmptyRef)
      [] t = T_Bone ->
            (P_assetName :> <<>>) @@ (P_parent :> EmptyRef)
            @@ (P_rootPosition :> <<F32_Zero, F32_Zero, F32_Zero>>)
            @@ (P_rootRotation :> <<F32_One, F32_Zero, F32_Zero, F32_Zero>>)
      [] t = T_Mesh -> (P_extensions :> <<>>)
      [] t = T_RenderExt ->
            (P_baseVertexIndex :> 0) @@ (P_numVerts :> 0)
            @@ (P_baseElemIndex :> 0) @@ (P_numElems :> 0)
            @@ (P_batches :> <<>>)
      [] t = T_SkinCluster ->
            (P_boneNames :> <<>>) @@ (P_bindPoseMatrices :> <<>>)
      [] t = T_Skeleton -> (P_bones :> <<>>)
      [] t = T_SceneRoot ->
            (P_children :> <<>>) @@ (P_geometryBuffer :> EmptyRef)
      [] t = T_MaterialDefinition ->
            (P_albedo :> EmptyRef) @@ (P_normal :> EmptyRef)
            @@ (P_emissive :> EmptyRef) @@ (P_specular :> EmptyRef)
      [] t = T_RenderBatch ->
            (P_materialDefinition :> EmptyRef) @@ (P_start :> OptInt(0))
            @@ (P_numTris :> OptInt(0))
      [] OTHER -> (A_type :> t)

\* get_obj_struct(obj_type): an instance of the class of that name, or of a
\* class made on the spot that carries only name and type
get_obj_struct(obj_type) ==
    (A_type :> obj_type) @@ (A_name :> <<>>) @@
    (IF obj_type \in KnownTypes THEN ClassDefaults(obj_type)
     ELSE (A_type :> obj_type))

\* setattr(obj, attr, value), hasattr(obj, attr), isinstance(obj, cls)
SetAttr(o, attr, value) ==
    [a \in DOMAIN o \cup {attr} |-> IF a = attr THEN value ELSE o[a]]
HasAttr(o, attr) == attr \in DOMAIN o
IsInstance(o, cls) == cls \in KnownTypes /\ o[A_type] = cls

\* seq[i] for a Python list and index: in range from -len to len - 1
PyIndexOK(seq, i) == -Len(seq) <= i /\ i < Len(seq)
PyAt(seq, i) == IF i >= 0 THEN seq[i + 1] ELSE seq[Len(seq) + i + 1]

(***************************************************************************)
(* read_long, read_float and read_fixed_string on the open file: bytes is  *)
(* its content and pos the cursor; each returns the cursor afterwards.     *)
(***************************************************************************)
\* read_long(): the integer, or None after a short read
read_long(bytes, pos) ==
    Only({ IF Len(r.data) < 4 THEN [none |-> TRUE, v |-> 0, pos |-> r.pos]
           ELSE [none |-> FALSE, v |-> I32(r.data), pos |-> r.pos]
           : r \in {FileRead(bytes, pos, 4)} })

\* read_long(count), count > 1: the list, or [] after a short read
read_longs(bytes, pos, count) ==
    Only({ IF Len(r.data) < 4 * count THEN [v |-> <<>>, pos |-> r.pos]
           ELSE [v |-> [i \in 1..count |->
                           I32(SubSeq(r.data, 4 * i - 3, 4 * i))],
                 pos |-> r.pos]
           : r \in {FileRead(bytes, pos, 4 * count)} })

\* read_float(count): count floats, all 0.0 after a short read
read_float(bytes, pos, count) ==
    Only({ IF Len(r.data) < 4 * count
           THEN [v |-> [i \in 1..count |-> F32_Zero], pos |-> r.pos]
           ELSE [v |-> [i \in 1..count |-> SubSeq(r.data, 4 * i - 3, 4 * i)],
                 pos |-> r.pos]
           : r \in {FileRead(bytes, pos, 4 * count)} })

\* bytes.split(b'\x00', 1)[0]
UpToNul(b) ==
    Only({ IF nuls = {} THEN b
           ELSE SubSeq(b, 1, (CHOOSE i \in nuls : \A j \in nuls : i <= j) - 1)
           : nuls \in {{i \in 1..Len(b) : b[i] = 0}} })

\* bytes.decode('utf-8', 'ignore'): an ASCII byte is its character (a control
\* character is written "^"); a byte from 128 on starts no character of the
\* files modelled and is dropped.
Decode(b) ==
    Only({ [i \in 1..Len(kept) |->
               IF kept[i] < 32 \/ kept[i] = 127 THEN "^" ELSE Chr(kept[i])]
           : kept \in {SelectSeq(b, LAMBDA x : x < 128)} })

read_fixed_string(bytes, pos, length) ==
    IF length <= 0 THEN [v |-> <<>>, pos |-> pos]
    ELSE LET r == FileRead(bytes, pos, length)
         IN  [v |-> Decode(UpToNul(r.data)), pos |-> r.pos]

(***************************************************************************)
(* parse_object_block, the decoding of one property's payload (the inner   *)
(* try).  Each decoder returns the object, the cursor afterwards and       *)
(* whether it left by `continue`, which skips the seek to prop_end.  An    *)
(* exception inside is caught by the inner except: the attribute is not    *)
(* set.  A loop whose read_long returned None stops there: the file is at  *)
(* its end, so every later pass reads None and is skipped as well.         *)
(***************************************************************************)
Decoded(o, pos) == [obj |-> o, pos |-> pos, cont |-> FALSE, exc |-> FALSE]
Continued(o, pos) == [obj |-> o, pos |-> pos, cont |-> TRUE, exc |-> FALSE]
\* an exception the inner except clause caught: nothing is set
Excepted(o, pos) == [obj |-> o, pos |-> pos, cont |-> FALSE, exc |-> TRUE]

\* parent, geometryBuffer, verts, ...: two string indices
DecodeSingleRef(bytes, ds, o, pt, pos) ==
    Only({ IF t.none THEN Continued(o, t.pos)
           ELSE IF ~PyIndexOK(ds, t.v) THEN Excepted(o, t.pos)
           ELSE Only({ IF n.none THEN Continued(o, n.pos)
                       ELSE IF ~PyIndexOK(ds, n.v) THEN Excepted(o, n.pos)
                       ELSE Decoded(SetAttr(o, pt, Ref(PyAt(ds, t.v),
                                                       PyAt(ds, n.v))),
                                    n.pos)
                       : n \in {read_long(bytes, t.pos)} })
           : t \in {read_long(bytes, pos)} })

\* the passes of `for _ in range(count)` over (type index, name index) pairs
RECURSIVE RefItems(_, _, _, _, _)
RefItems(bytes, ds, pos, n, acc) ==
    IF n <= 0 THEN [exc |-> FALSE, list |-> acc, pos |-> pos]
    ELSE Only({
         IF t.none THEN [exc |-> FALSE, list |-> acc, pos |-> t.pos]
         ELSE IF ~PyIndexOK(ds, t.v)
         THEN [exc |-> TRUE, list |-> acc, pos |-> t.pos]
         ELSE Only({
              IF m.none THEN [exc |-> FALSE, list |-> acc, pos |-> m.pos]
              ELSE IF ~PyIndexOK(ds, m.v)
              THEN [exc |-> TRUE, list |-> acc, pos |-> m.pos]
              ELSE RefItems(bytes, ds, m.pos, n - 1,
                       Append(acc, Ref(PyAt(ds, t.v), PyAt(ds, m.v))))
              : m \in {read_long(bytes, t.pos)} })
         : t \in {read_long(bytes, pos)} })

\* bones: (discarded integer, string index) pairs
RECURSIVE BoneItems(_, _, _, _, _)
BoneItems(bytes, ds, pos, n, acc) ==
    IF n <= 0 THEN [exc |-> FALSE, list |-> acc, pos |-> pos]
    ELSE Only({
         IF b.none THEN [exc |-> FALSE, list |-> acc, pos |-> b.pos]
         ELSE IF ~PyIndexOK(ds, b.v)
         THEN [exc |-> TRUE, list |-> acc, pos |-> b.pos]
         ELSE BoneItems(bytes, ds, b.pos, n - 1, Append(acc, PyAt(ds, b.v)))
         : b \in {read_long(bytes, read_long(bytes, pos).pos)} })

\* boneNames: string indices
RECURSIVE NameItems(_, _, _, _, _)
NameItems(bytes, ds, pos, n, acc) ==
    IF n <= 0 THEN [exc |-> FALSE, list |-> acc, pos |-> pos]
    ELSE Only({
         IF b.none THEN [exc |-> FALSE, list |-> acc, pos |-> b.pos]
         ELSE IF ~PyIndexOK(ds, b.v)
         THEN [exc |-> TRUE, list |-> acc, pos |-> b.pos]
         ELSE NameItems(bytes, ds, b.pos, n - 1, Append(acc, PyAt(ds, b.v)))
         : b \in {read_long(bytes, pos)} })

\* bindPoseMatrices: read_float(16) per pass, zeros past the end of the file
RECURSIVE MatrixItems(_, _, _, _)
MatrixItems(bytes, pos, n, acc) ==
    IF n <= 0 THEN [exc |-> FALSE, list |-> acc, pos |-> pos]
    ELSE Only({ MatrixItems(bytes, m.pos, n - 1, Append(acc, m.v))
                : m \in {read_float(bytes, pos, 16)} })

\* count = self.read_long(), then the loop; range(None) raises TypeError
DecodeList(bytes, ds, o, pt, pos) ==
    Only({ IF c.none THEN Excepted(o, c.pos)
           ELSE Only({ IF r.exc THEN Excepted(o, r.pos)
                       ELSE Decoded(SetAttr(o, pt, r.list), r.pos)
                       : r \in {IF pt \in RefListProps
                                THEN RefItems(bytes, ds, c.pos, c.v, <<>>)
                                ELSE IF pt = P_bones
                                THEN BoneItems(bytes, ds, c.pos, c.v, <<>>)
                                ELSE IF pt = P_boneNames
                                THEN NameItems(bytes, ds, c.pos, c.v, <<>>)
                                ELSE MatrixItems(bytes, c.pos, c.v, <<>>)} })
           : c \in {read_long(bytes, pos)} })

\* the if/elif chain on prop_type
DecodePayload(bytes, ds, o, pt, pos) ==
    IF pt \in SingleRefProps THEN DecodeSingleRef(bytes, ds, o, pt, pos)
    ELSE IF pt \in RefListProps \cup {P_bones, P_boneNames, P_bindPoseMatrices}
    THEN DecodeList(bytes, ds, o, pt, pos)
    ELSE IF pt \in ScalarIntProps
    THEN Only({ Decoded(IF v.none THEN o ELSE SetAttr(o, pt, v.v), v.pos)
                : v \in {read_long(bytes, pos)} })
    ELSE IF pt = P_assetName
    THEN Only({ IF a.none THEN Continued(o, a.pos)
                ELSE IF ~PyIndexOK(ds, a.v) THEN Excepted(o, a.pos)
                ELSE Decoded(SetAttr(o, pt, PyAt(ds, a.v)), a.pos)
                : a \in {read_long(bytes, pos)} })
    ELSE IF pt = P_rootPosition
    THEN Only({ Decoded(SetAttr(o, pt, p.v), read_float(bytes, p.pos, 1).pos)
                : p \in {read_float(bytes, pos, 3)} })
    ELSE IF pt = P_rootRotation
    THEN Only({ Decoded(SetAttr(o, pt, q.v), q.pos)
                : q \in {read_float(bytes, pos, 4)} })
    ELSE IF pt \in {P_start, P_numTris}
    THEN Only({ Decoded(SetAttr(o, pt, IF v.none THEN OptNone ELSE OptInt(v.v)),
                        v.pos)
                : v \in {read_long(bytes, pos)} })
    ELSE Decoded(o, pos)

(***************************************************************************)
(* parse_object_block, one pass of `while True`.  prop_end is the local    *)
(* variable, unbound until the first property's length has been read.      *)
(* kind says how the pass ends:                                            *)
(*   "break"     the terminator -1 was read;                               *)
(*   "seeked"    the payload was handled and the file sought to prop_end;  *)
(*   "continued" the decoder left by `continue`: no seek;                  *)
(*   "caught"    an exception reached the outer except, whose              *)
(*               self.file.seek(prop_end) succeeded;                       *)
(*   "raised"    that seek raised too (prop_end unbound or negative): the  *)
(*               exception leaves parse_object_block.                      *)
(* exc says whether the inner except clause caught an exception of the     *)
(* payload's decoder in this pass.                                         *)
(***************************************************************************)
Unbound == [bound |-> FALSE, v |-> 0]
Bound(v) == [bound |-> TRUE, v |-> v]

Pass(kind, o, pos, pe, start, len) ==
    [kind |-> kind, obj |-> o, pos |-> pos, prop_end |-> pe,
     start |-> start, len |-> len, exc |-> FALSE]

\* the outer except clause: self.file.seek(prop_end)
OuterExcept(o, pos, pe) ==
    IF ~pe.bound \/ pe.v < 0 THEN Pass("raised", o, pos, pe, 0, 0)
    ELSE Pass("caught", o, pe.v, pe, 0, 0)

\* A plausible slip: no inner try, so that an exception of the payload's
\* decoder reaches the outer except clause.
AfterPayload_NoInnerTry(d, end, start, len) ==
    IF d.cont THEN Pass("continued", d.obj, d.pos, end, start, len)
    ELSE IF d.exc \/ end.v < 0
    THEN [OuterExcept(d.obj, d.pos, end) EXCEPT !.exc = d.exc]
    ELSE Pass("seeked", d.obj, end.v, end, start, len)

\* the pass from the end of the payload's decoder d on: `continue`, or the
\* inner except clause if it raised, then self.file.seek(prop_end)
AfterPayload(d, end, start, len) ==
    IF d.cont THEN Pass("continued", d.obj, d.pos, end, start, len)
    ELSE IF end.v < 0
    THEN [OuterExcept(d.obj, d.pos, end) EXCEPT !.exc = d.exc]
    ELSE [Pass("seeked", d.obj, end.v, end, start, len) EXCEPT !.exc = d.exc]

WhilePass(bytes, ds, o, pos, pe) ==
    Only({
      IF ~i.none /\ i.v = -1 THEN Pass("break", o, i.pos, pe, 0, 0)
      ELSE IF i.none \/ ~PyIndexOK(ds, i.v) THEN OuterExcept(o, i.pos, pe)
      ELSE Only({
           IF len.none THEN OuterExcept(o, len.pos, pe)
           ELSE Only({ AfterPayload(d, Bound(len.pos + len.v), len.pos, len.v)
                  : d \in {DecodePayload(bytes, ds, o, PyAt(ds, i.v), len.pos)} })
           : len \in {read_long(bytes, i.pos)} })
      : i \in {read_long(bytes, pos)} })

\* The head of parse_object_block: type index, name index, one unused
\* integer.  "returned": a read gave None; "raised": an index is out of
\* range, and the outer except raises on the unbound prop_end.
BlockHead(bytes, ds, pos) ==
    Only({
      IF t.none THEN [kind |-> "returned", obj |-> <<>>, pos |-> t.pos]
      ELSE IF ~PyIndexOK(ds, t.v)
      THEN [kind |-> "raised", obj |-> <<>>, pos |-> t.pos]
      ELSE Only({
           IF n.none THEN [kind |-> "returned", obj |-> <<>>, pos |-> n.pos]
           ELSE IF ~PyIndexOK(ds, n.v)
           THEN [kind |-> "raised", obj |-> <<>>, pos |-> n.pos]
           ELSE [kind |-> "object",
                 obj |-> SetAttr(get_obj_struct(PyAt(ds, t.v)), A_name,
                                 PyAt(ds, n.v)),
                 pos |-> read_long(bytes, n.pos).pos]
           : n \in {read_long(bytes, t.pos)} })
      : t \in {read_long(bytes, pos)} })

(***************************************************************************)
(* Paths and the file system.  A path is absolute or relative to the       *)
(* working directory and has a list of components, each a text; "." and    *)
(* ".." may be among them.  A scene (below) gives the working directory    *)
(* and the files on disk, each with the normalised components of its       *)
(* directory, its name and its content.                                    *)
(***************************************************************************)
Path(abs, parts) == [abs |-> abs, parts |-> parts]

Dot == <<".">>
DotDot == <<".", ".">>

\* os.path.normpath on the components
RECURSIVE NormParts(_, _, _)
NormParts(abs, parts, acc) ==
    IF parts = <<>> THEN acc
    ELSE LET h == Head(parts) IN
         IF h = Dot \/ h = <<>> THEN NormParts(abs, Tail(parts), acc)
         ELSE IF h = DotDot
         THEN IF acc # <<>> /\ acc[Len(acc)] # DotDot
              THEN NormParts(abs, Tail(parts), SubSeq(acc, 1, Len(acc) - 1))
              ELSE IF abs THEN NormParts(abs, Tail(parts), acc)
              ELSE NormParts(abs, Tail(parts), Append(acc, h))
         ELSE NormParts(abs, Tail(parts), Append(acc, h))

normpath(p) == Path(p.abs, NormParts(p.abs, p.parts, <<>>))

\* A plausible slip: the path is used as spelled.
abspath_AsSpelled(cwd, p) == p

\* os.path.abspath(p) with working directory cwd
abspath(cwd, p) ==
    normpath(IF p.abs THEN p ELSE Path(TRUE, cwd \o p.parts))

dirname(p) ==
    Path(p.abs, IF p.parts = <<>> THEN <<>> ELSE SubSeq(p.parts, 1, Len(p.parts) - 1))
basename(p) == IF p.parts = <<>> THEN <<>> ELSE p.parts[Len(p.parts)]
join(p, name) == Path(p.abs, Append(p.parts, name))

\* str.upper() on a text
UpperChar(c) ==
    LET code == Ord(c) IN IF code >= 97 /\ code <= 122 THEN Chr(code - 32) ELSE c
Upper(text) == [i \in 1..Len(text) |-> UpperChar(text[i])]

W_GAME == <<"G", "A", "M", "E">>
W_MATERIALS == <<"M", "A", "T", "E", "R", "I", "A", "L", "S">>
Ext_bod == <<".", "b", "o", "d">>
Ext_data == <<".", "d", "a", "t", "a">>
Ext_weights == <<".", "w", "e", "i", "g", "h", "t", "s">>

\* find_game_base_dir: the path up to the first component that is GAME in
\* any case, or None
find_game_base_dir(directory) ==
    LET parts == normpath(directory).parts
        hits == {i \in 1..Len(parts) : Upper(parts[i]) = W_GAME}
    IN  IF hits = {} THEN [none |-> TRUE, path |-> Path(FALSE, <<>>)]
        ELSE LET i == CHOOSE h \in hits : \A g \in hits : h <= g
             IN  [none |-> FALSE, path |-> Path(directory.abs, SubSeq(parts, 1, i))]

IsPrefix(a, b) == Len(a) <= Len(b) /\ SubSeq(b, 1, Len(a)) = a

\* where the operating system finds path p: the components from the root
Resolve(cwd, p) ==
    NormParts(TRUE, IF p.abs THEN p.parts ELSE cwd \o p.parts, <<>>)

\* the file at path p, or none
FileAt(files, cwd, p) ==
    {f \in files : Append(f.dir, f.name) = Resolve(cwd, p)}

\* os.path.exists for a directory
DirExists(files, cwd, p) == \E f \in files : IsPrefix(Resolve(cwd, p), f.dir)

\* the names "*" + tail matches: glob does not match a leading dot with "*"
MatchesStar(name, tail) == EndsWith(name, tail) /\ name[1] # "."

\* glob.glob(os.path.join(directory, "*.bod")): the paths, in any order
GlobDir(files, cwd, directory) ==
    {join(directory, f.name) :
        f \in {g \in files : g.dir = Resolve(cwd, directory)
                             /\ MatchesStar(g.name, Ext_bod)}}

\* glob.glob(os.path.join(directory, "**", "*.bod"), recursive=True)
GlobRecursive(files, cwd, directory) ==
    {Path(directory.abs,
          directory.parts
          \o SubSeq(f.dir, Len(Resolve(cwd, directory)) + 1, Len(f.dir))
          \o <<f.name>>) :
        f \in {g \in files : IsPrefix(Resolve(cwd, directory), g.dir)
                             /\ MatchesStar(g.name, Ext_bod)}}

\* the orders a glob may return a set of paths in
Orders(S) ==
    {q \in [1..Cardinality(S) -> S] : \A i, j \in 1..Cardinality(S) :
                                          i # j => q[i] # q[j]}

(***************************************************************************)
(* The files a scene is made of.  A scene file is the 7-integer header,    *)
(* the string table and the object blocks; the operators below write one   *)
(* from its strings and blocks, every index being the position of a        *)
(* string in the table.                                                    *)
(***************************************************************************)
RECURSIVE Flatten(_)
Flatten(seqs) ==
    IF Len(seqs) = 0 THEN <<>>
    ELSE IF Len(seqs) = 1 THEN seqs[1]
    ELSE Flatten(SubSeq(seqs, 1, Len(seqs) \div 2))
         \o Flatten(SubSeq(seqs, Len(seqs) \div 2 + 1, Len(seqs)))

StrEntry(text) == LE32(Len(text)) \o Enc(text)
StringTable(strs) ==
    LE32(Len(strs)) \o Flatten([i \in 1..Len(strs) |-> StrEntry(strs[i])])
Idx(strs, text) == (CHOOSE i \in 1..Len(strs) : strs[i] = text) - 1
RefBytes(strs, t, n) == LE32(Idx(strs, t)) \o LE32(Idx(strs, n))
RefList(strs, refs) ==
    LE32(Len(refs))
    \o Flatten([i \in 1..Len(refs) |-> RefBytes(strs, refs[i][1], refs[i][2])])
IdxList(strs, texts) ==
    LE32(Len(texts)) \o Flatten([i \in 1..Len(texts) |-> LE32(Idx(strs, texts[i]))])
BoneList(strs, texts) ==
    LE32(Len(texts))
    \o Flatten([i \in 1..Len(texts) |-> LE32(0) \o LE32(Idx(strs, texts[i]))])
PropDeclared(strs, name, length, payload) ==
    LE32(Idx(strs, name)) \o LE32(length) \o payload
Prop(strs, name, payload) == PropDeclared(strs, name, Len(payload), payload)
Block(strs, t, n, props) ==
    LE32(Idx(strs, t)) \o LE32(Idx(strs, n)) \o LE32(0) \o Flatten(props)
    \o LE32(-1)
\* the same file with the string table after the object blocks
SceneFileTail(strs, blocks) ==
    Flatten(<<LE32(0), LE32(0), LE32(4 * 7),
              LE32(4 * 7 + Len(Flatten(blocks))),
              LE32(0), LE32(0), LE32(Len(blocks))>>)
    \o Flatten(blocks) \o StringTable(strs)
SceneFile(strs, blocks) ==
    LET table == StringTable(strs)
    IN  Flatten(<<LE32(0), LE32(0), LE32(4 * 7 + Len(table)), LE32(4 * 7),
                  LE32(0), LE32(0), LE32(Len(blocks))>>)
        \o table \o Flatten(blocks)

\* names of objects, directories and files
N_Root == <<"R", "o", "o", "t">>
N_Geo == <<"G", "e", "o">>
N_zz == <<"z", "z">>
N_x == <<"x">>
N_H_fresnel == <<"H", "_", "f", "r", "e", "s", "n", "e", "l">>
N_H_fresnelShape == <<"H", "_", "f", "r", "e", "s", "n", "e", "l", "S", "h", "a", "p", "e">>
N_H_fur == <<"H", "_", "f", "u", "r">>
N_K_fur == <<"K", "_", "f", "u", "r">>
N_X1 == <<"X", "1">>
N_X2 == <<"X", "2">>
N_X9 == <<"X", "9">>
N_B1 == <<"B", "1">>
N_B2 == <<"B", "2">>
N_M1 == <<"M", "1">>
N_M2 == <<"M", "2">>
N_t1 == <<"t", "1">>
N_dv == <<"d", "/", "v">>
N_de == <<"d", "/", "e">>
N_M == <<"M">>
N_X == <<"X">>
N_sX == <<"s", "X">>
N_K == <<"K">>
N_b0 == <<"b", "0">>
N_b1 == <<"b", "1">>
N_A == <<"A">>
N_W == <<"W">>
T_Widget == <<"W", "i", "d", "g", "e", "t">>
D_p == <<"p">>
D_a == <<"a">>
D_ASSETS == <<"A", "S", "S", "E", "T", "S">>
D_hat == <<"h", "a", "t">>
D_body == <<"b", "o", "d", "y">>
D_sub == <<"s", "u", "b">>
D_odd == <<"o", "d", "d">>
F_root == <<"r", "o", "o", "t", ".", "b", "o", "d">>
F_bad == <<"b", "a", "d", ".", "b", "o", "d">>
F_hat == <<"h", "a", "t", ".", "b", "o", "d">>
F_ext == <<"e", "x", "t", ".", "b", "o", "d">>
F_m == <<"m", ".", "b", "o", "d">>
F_body == <<"b", "o", "d", "y", ".", "b", "o", "d">>
F_v == <<"v", ".", "d", "a", "t", "a">>
F_e == <<"e", ".", "d", "a", "t", "a">>
F_none == <<"n", "o", "n", "e", ".", "b", "o", "d">>
F_odd == <<"o", "d", "d", ".", "b", "o", "d">>
F_cut == <<"c", "u", "t", ".", "b", "o", "d">>
F_t == <<"t", ".", "b", "o", "d">>
F_m2 == <<"m", "2", ".", "b", "o", "d">>
F_loop == <<"l", "o", "o", "p", ".", "b", "o", "d">>
D_twins == <<"t", "w", "i", "n", "s">>
D_loop == <<"l", "o", "o", "p">>

\* root.bod: one SceneRoot with an unknown property of odd length, one of
\* length 0, an empty list, and a reference followed by four unused bytes
Strs_root ==
    <<T_SceneRoot, N_Root, N_zz, P_children, P_geometryBuffer,
      T_GeometryBuffer, N_Geo>>
File_root ==
    SceneFile(Strs_root,
      <<Block(Strs_root, T_SceneRoot, N_Root,
          <<Prop(Strs_root, N_zz, <<1, 2, 3>>),
            Prop(Strs_root, N_zz, <<>>),
            Prop(Strs_root, P_children, RefList(Strs_root, <<>>)),
            PropDeclared(Strs_root, P_geometryBuffer, 12,
                RefBytes(Strs_root, T_GeometryBuffer, N_Geo) \o <<0, 0, 0, 0>>)>>)>>)

\* odd.bod: the object blocks come before the string table.  A block of a
\* type get_obj_struct does not know, with two properties of known names;
\* a RenderExt whose second property of three names a string that is not
\* in the table.
Strs_odd ==
    <<T_Widget, N_W, P_numVerts, P_children, T_Mesh, N_M, T_RenderExt, N_X,
      P_batches, P_numElems, N_zz>>
File_odd ==
    SceneFileTail(Strs_odd,
      <<Block(Strs_odd, T_Widget, N_W,
          <<Prop(Strs_odd, P_numVerts, LE32(5)),
            Prop(Strs_odd, P_children,
                 RefList(Strs_odd, <<<<T_Mesh, N_M>>>>))>>),
        Block(Strs_odd, T_RenderExt, N_X,
          <<Prop(Strs_odd, P_numVerts, LE32(3)),
            Prop(Strs_odd, P_batches, LE32(1) \o LE32(99) \o LE32(0)),
            Prop(Strs_odd, P_numElems, LE32(6))>>)>>)

\* cut.bod: the first five integers of a header
File_cut == SubSeq(File_odd, 1, 20)

\* bad.bod: a block whose type index is outside the string table
File_bad ==
    SceneFile(<<N_x>>, <<LE32(7) \o LE32(0) \o LE32(0) \o LE32(-1)>>)

\* hat.bod: a SceneRoot and four variant meshes
Strs_hat ==
    <<T_SceneRoot, N_Root, T_Mesh, P_extensions, T_RenderExt, N_H_fresnel,
      N_H_fresnelShape, N_H_fur, N_K_fur, N_X1, N_X2, N_X9>>
HatMesh(name, ext) ==
    Block(Strs_hat, T_Mesh, name,
        <<Prop(Strs_hat, P_extensions,
               RefList(Strs_hat, <<<<T_RenderExt, ext>>>>))>>)
File_hat ==
    SceneFile(Strs_hat,
      <<Block(Strs_hat, T_SceneRoot, N_Root, <<>>),
        HatMesh(N_H_fresnel, N_X1),
        HatMesh(N_H_fresnelShape, N_X2),
        HatMesh(N_H_fur, N_X2),
        HatMesh(N_K_fur, N_X9)>>)

\* ext.bod: the RenderExts and RenderBatches the meshes name
Strs_ext ==
    <<T_RenderExt, N_X1, N_X2, P_batches, T_RenderBatch, N_B1, N_B2,
      P_materialDefinition, T_MaterialDefinition, N_M1, N_M2>>
ExtRender(name, batch) ==
    Block(Strs_ext, T_RenderExt, name,
        <<Prop(Strs_ext, P_batches,
               RefList(Strs_ext, <<<<T_RenderBatch, batch>>>>))>>)
ExtBatch(name, mat) ==
    Block(Strs_ext, T_RenderBatch, name,
        <<Prop(Strs_ext, P_materialDefinition,
               RefBytes(Strs_ext, T_MaterialDefinition, mat))>>)
File_ext ==
    SceneFile(Strs_ext,
      <<ExtRender(N_X1, N_B1), ExtRender(N_X2, N_B2),
        ExtBatch(N_B1, N_M1), ExtBatch(N_B2, N_M2)>>)

\* m.bod: two MaterialDefinitions
Strs_m == <<T_MaterialDefinition, N_M1, N_M2, P_albedo, T_Texture, N_t1>>
File_m ==
    SceneFile(Strs_m,
      <<Block(Strs_m, T_MaterialDefinition, N_M1,
          <<Prop(Strs_m, P_albedo, RefBytes(Strs_m, T_Texture, N_t1))>>),
        Block(Strs_m, T_MaterialDefinition, N_M2, <<>>)>>)

\* m2.bod: a MaterialDefinition of the name M1, without a texture
Strs_m2 == <<T_MaterialDefinition, N_M1>>
File_m2 ==
    SceneFile(Strs_m2, <<Block(Strs_m2, T_MaterialDefinition, N_M1, <<>>)>>)

\* t.bod: a header and an empty string table, no block
File_t == SceneFile(<<>>, <<>>)

\* loop.bod: a Mesh whose second property, of a name no decoder knows,
\* declares the length -24: the end of the property is the start of the
\* property before it
Strs_loop == <<T_Mesh, N_M, N_zz, P_numVerts>>
File_loop ==
    SceneFile(Strs_loop,
      <<Block(Strs_loop, T_Mesh, N_M,
          <<Prop(Strs_loop, P_numVerts, LE32(3)),
            PropDeclared(Strs_loop, N_zz, 0 - 20, <<>>)>>)>>)

\* body.bod: a skeleton of one bone, a mesh on a geometry buffer, and a
\* SkinCluster naming two bones with one bind-pose matrix
Strs_body ==
    <<T_SceneRoot, T_GeometryBuffer, T_Mesh, T_RenderExt, T_SkinCluster,
      T_Skeleton, T_Bone, P_geometryBuffer, P_children, P_verts, P_elems,
      P_extensions, P_numVerts, P_numElems, P_boneNames, P_bindPoseMatrices,
      P_bones, P_assetName, N_Root, N_Geo, N_dv, N_de, N_M, N_X, N_sX, N_K,
      N_b0, N_b1, N_A>>
IdentityMatrix ==
    Flatten([i \in 1..16 |-> IF i \in {1, 6, 11, 16} THEN F32_One ELSE F32_Zero])
File_body ==
    SceneFile(Strs_body,
      <<Block(Strs_body, T_Skeleton, N_K,
          <<Prop(Strs_body, P_bones, BoneList(Strs_body, <<N_b0>>))>>),
        Block(Strs_body, T_Bone, N_b0,
          <<Prop(Strs_body, P_assetName, LE32(Idx(Strs_body, N_A)))>>),
        Block(Strs_body, T_GeometryBuffer, N_Geo,
          <<Prop(Strs_body, P_verts, RefBytes(Strs_body, T_GeometryBuffer, N_dv)),
            Prop(Strs_body, P_elems, RefBytes(Strs_body, T_GeometryBuffer, N_de))>>),
        Block(Strs_body, T_Mesh, N_M,
          <<Prop(Strs_body, P_extensions,
                 RefList(Strs_body, <<<<T_RenderExt, N_X>>>>))>>),
        Block(Strs_body, T_RenderExt, N_X,
          <<Prop(Strs_body, P_numVerts, LE32(3)),
            Prop(Strs_body, P_numElems, LE32(3))>>),
        Block(Strs_body, T_SceneRoot, N_Root,
          <<Prop(Strs_body, P_geometryBuffer,
                 RefBytes(Strs_body, T_GeometryBuffer, N_Geo)),
            Prop(Strs_body, P_children,
                 RefList(Strs_body, <<<<T_Skeleton, N_K>>, <<T_Mesh, N_M>>>>))>>),
        Block(Strs_body, T_SkinCluster, N_sX,
          <<Prop(Strs_body, P_boneNames, IdxList(Strs_body, <<N_b0, N_b1>>)),
            Prop(Strs_body, P_bindPoseMatrices, LE32(1) \o IdentityMatrix)>>)>>)

\* v.data: three vertices; e.data: one triangle
File_v ==
    BufHeader(Magic_CDAT, Stride_GEOMETRY, 3 * Stride_GEOMETRY)
    \o OneVertex \o OneVertex \o OneVertex
File_e == BufHeader(Magic_CDAT, Stride_ELEMS, 3 * Stride_ELEMS) \o EncIndices(<<0, 1, 2>>)

\* the content of each file
Bytes(data) ==
    CASE data = "root" -> File_root
      [] data = "bad" -> File_bad
      [] data = "hat" -> File_hat
      [] data = "ext" -> File_ext
      [] data = "m" -> File_m
      [] data = "body" -> File_body
      [] data = "v" -> File_v
      [] data = "e" -> File_e
      [] data = "odd" -> File_odd
      [] data = "cut" -> File_cut
      [] data = "m2" -> File_m2
      [] data = "t" -> File_t
      [] data = "loop" -> File_loop

OnDisk(dir, name, data) == [dir |-> dir, name |-> name, data |-> data]

(***************************************************************************)
(* The scenes read() is run on: the working directory, the path handed to  *)
(* the reader and the files on disk.                                       *)
(*   plain:     /p/a/root.bod, next to a file that does not parse;         *)
(*   variants:  /p/GAME/ASSETS/hat/hat.bod with ext.bod beside it and the  *)
(*              materials in /p/GAME/MATERIALS/sub/m.bod;                  *)
(*   skin:      /p/GAME/ASSETS/body/body.bod with its two data buffers;    *)
(*   materials: the entry is /p/GAME/MATERIALS/./m.bod, spelled with a     *)
(*              "." component;                                             *)
(*   odd:       /p/odd/odd.bod, whose blocks come before its string table, *)
(*              with m.bod and the 20-byte cut.bod beside it;              *)
(*   twins:     /p/twins/t.bod, an empty scene, with m.bod and m2.bod      *)
(*              beside it, which both define M1;                           *)
(*   loop:      /p/loop/loop.bod, alone.                                   *)
(***************************************************************************)
Dir_a == <<D_p, D_a>>
Dir_hat == <<D_p, W_GAME, D_ASSETS, D_hat>>
Dir_body == <<D_p, W_GAME, D_ASSETS, D_body>>
Dir_materials == <<D_p, W_GAME, W_MATERIALS>>
Dir_odd == <<D_p, D_odd>>
Dir_twins == <<D_p, D_twins>>
Dir_loop == <<D_p, D_loop>>

Scene_plain ==
    [cwd |-> <<D_p>>,
     filepath |-> Path(TRUE, Dir_a \o <<F_root>>),
     files |-> {OnDisk(Dir_a, F_root, "root"), OnDisk(Dir_a, F_bad, "bad")}]
Scene_variants ==
    [cwd |-> <<D_p>>,
     filepath |-> Path(TRUE, Dir_hat \o <<F_hat>>),
     files |-> {OnDisk(Dir_hat, F_hat, "hat"), OnDisk(Dir_hat, F_ext, "ext"),
                OnDisk(Dir_materials \o <<D_sub>>, F_m, "m")}]
Scene_skin ==
    [cwd |-> <<D_p>>,
     filepath |-> Path(TRUE, Dir_body \o <<F_body>>),
     files |-> {OnDisk(Dir_body, F_body, "body"), OnDisk(Dir_body, F_v, "v"),
                OnDisk(Dir_body, F_e, "e")}]
Scene_materials ==
    [cwd |-> <<D_p>>,
     filepath |-> Path(TRUE, Dir_materials \o <<Dot, F_m>>),
     files |-> {OnDisk(Dir_materials, F_m, "m")}]
Scene_odd ==
    [cwd |-> <<D_p>>,
     filepath |-> Path(TRUE, Dir_odd \o <<F_odd>>),
     files |-> {OnDisk(Dir_odd, F_odd, "odd"), OnDisk(Dir_odd, F_m, "m"),
                OnDisk(Dir_odd, F_cut, "cut")}]
Scene_twins ==
    [cwd |-> <<D_p>>,
     filepath |-> Path(TRUE, Dir_twins \o <<F_t>>),
     files |-> {OnDisk(Dir_twins, F_t, "t"), OnDisk(Dir_twins, F_m, "m"),
                OnDisk(Dir_twins, F_m2, "m2")}]
Scene_loop ==
    [cwd |-> <<D_p>>,
     filepath |-> Path(TRUE, Dir_loop \o <<F_loop>>),
     files |-> {OnDisk(Dir_loop, F_loop, "loop")}]

Scenes == {"plain", "variants", "skin", "materials", "odd", "twins", "loop"}
Scene(s) ==
    CASE s = "plain" -> Scene_plain
      [] s = "variants" -> Scene_variants
      [] s = "skin" -> Scene_skin
      [] s = "materials" -> Scene_materials
      [] s = "odd" -> Scene_odd
      [] s = "twins" -> Scene_twins
      [] s = "loop" -> Scene_loop

\* the content of the file at path p; the entry file is cut short after
\* `cutv` bytes
Content(sc, cutv, p) ==
    Only({ IF Resolve(sc.cwd, p) = Resolve(sc.cwd, sc.filepath)
           THEN SubSeq(b, 1, Min2(cutv, Len(b)))
           ELSE b
           : b \in {Bytes((CHOOSE g \in FileAt(sc.files, sc.cwd, p) : TRUE).data)} })
EntryLen(s) ==
    Len(Bytes((CHOOSE g \in FileAt(Scene(s).files, Scene(s).cwd, Scene(s).filepath) :
                  TRUE).data))

(***************************************************************************)
(* parse_file up to the object loop.                                       *)
(***************************************************************************)
\* the iterations lo..hi of the loop over the string table, from the cursor
\* and the strings st = [pos, acc] before them: a length that cannot be read
\* is skipped (`continue`)
RECURSIVE ReadStrings(_, _, _, _)
ReadStrings(bytes, st, lo, hi) ==
    IF lo > hi THEN st
    ELSE IF lo = hi
    THEN Only({
         IF l.none THEN [pos |-> l.pos, acc |-> st.acc]
         ELSE Only({ [pos |-> t.pos, acc |-> Append(st.acc, t.v)]
                     : t \in {read_fixed_string(bytes, l.pos, l.v)} })
         : l \in {read_long(bytes, st.pos)} })
    ELSE Only({ ReadStrings(bytes, half, (lo + hi) \div 2 + 1, hi)
                : half \in {ReadStrings(bytes, st, lo, (lo + hi) \div 2)} })

\* A plausible slip: self.data_strings is emptied before the header is read.
Closed_Reset(ds) ==
    [open |-> FALSE, ds |-> <<>>, cursor |-> 0, blocks_left |-> 0]

Closed(ds) == [open |-> FALSE, ds |-> ds, cursor |-> 0, blocks_left |-> 0]

\* open(filepath), the header, the string table, the seek to the data
\* offset.  ds is self.data_strings before the call.  A file that is
\* missing, a header cut short, an offset that seek refuses and a string
\* count that cannot be read leave the object loop out.
OpenFile(sc, cutv, p, ds) ==
    IF FileAt(sc.files, sc.cwd, p) = {} THEN Closed(ds)
    ELSE Only({
         Only({
           IF header = <<>> THEN Closed(ds)
           ELSE IF header[4] < 0 THEN Closed(ds)
           ELSE Only({
                IF string_count.none THEN Closed(ds)
                ELSE Only({
                     IF header[3] < 0 THEN Closed(strs)
                     ELSE [open |-> TRUE, ds |-> strs, cursor |-> header[3],
                           blocks_left |-> Max2(header[7], 0)]
                     : strs \in {ReadStrings(bytes,
                                     [pos |-> string_count.pos, acc |-> <<>>],
                                     1, string_count.v).acc} })
                : string_count \in {read_long(bytes, header[4])} })
           : header \in {read_longs(bytes, 0, 7).v} })
         : bytes \in {Content(sc, cutv, p)} })

(***************************************************************************)
(* object_map, material_definitions: a dict is the list of its (key,       *)
(* value) pairs in insertion order; assigning to a key that is present     *)
(* keeps its place.                                                        *)
(***************************************************************************)
MapFind(m, k) == {i \in 1..Len(m) : m[i][1] = k}
MapHas(m, k) == MapFind(m, k) # {}
MapGet(m, k) == m[CHOOSE i \in MapFind(m, k) : TRUE][2]
\* A plausible slip: a name that is already a key keeps its first object.
MapPut_KeepFirst(m, k, v) == IF MapHas(m, k) THEN m ELSE Append(m, <<k, v>>)

MapPut(m, k, v) ==
    IF MapHas(m, k)
    THEN [m EXCEPT ![CHOOSE i \in MapFind(m, k) : TRUE] = <<k, v>>]
    ELSE Append(m, <<k, v>>)
MapKeys(m) == {m[i][1] : i \in 1..Len(m)}

\* self.obj_arr.append(obj); self.object_map[obj.name] = obj
Merged(graph, o) ==
    [obj_arr |-> Append(graph.obj_arr, o),
     object_map |-> MapPut(graph.object_map, o[A_name], o)]

\* A plausible slip: the cache is left as it was before the files were read.
CacheMaterialDefinitions_Skipped(arr, lo, hi, md) == md

\* load_dependencies, the last loop: the MaterialDefinitions by name, over
\* the elements lo..hi of the list
RECURSIVE CacheMaterialDefinitions(_, _, _, _)
CacheMaterialDefinitions(arr, lo, hi, md) ==
    IF lo > hi THEN md
    ELSE IF lo = hi
    THEN IF IsInstance(arr[lo], T_MaterialDefinition)
         THEN MapPut(md, arr[lo][A_name], arr[lo]) ELSE md
    ELSE Only({ CacheMaterialDefinitions(arr, (lo + hi) \div 2 + 1, hi, half)
                : half \in {CacheMaterialDefinitions(arr, lo, (lo + hi) \div 2,
                                                      md)} })

(***************************************************************************)
(* build_variant_map.                                                      *)
(***************************************************************************)
variant_type(name) ==
    IF StrIn(Sfx_fresnel, name) THEN "fresnel"
    ELSE IF StrIn(Sfx_fur, name) THEN "fur"
    ELSE None

NotTraced == [found |-> FALSE, mat |-> <<>>]

\* the try block: first extension -> object -> first batch -> object ->
\* materialDefinition -> material_definitions.  A lookup that misses gives
\* None, whose attribute access raises AttributeError; an empty batches
\* list raises IndexError; both are caught.
TraceMaterial(o, om, md) ==
    LET ext == o[P_extensions][1].name IN
    IF ~MapHas(om, ext) THEN NotTraced
    ELSE LET ext_obj == MapGet(om, ext) IN
         IF ~HasAttr(ext_obj, P_batches) THEN NotTraced
         ELSE IF ext_obj[P_batches] = <<>> THEN NotTraced
         ELSE LET b == ext_obj[P_batches][1].name IN
              IF ~MapHas(om, b) THEN NotTraced
              ELSE LET batch_obj == MapGet(om, b) IN
                   IF ~HasAttr(batch_obj, P_materialDefinition) THEN NotTraced
                   ELSE LET m == batch_obj[P_materialDefinition].name IN
                        IF ~MapHas(md, m) THEN NotTraced
                        ELSE [found |-> TRUE, mat |-> MapGet(md, m)]

\* A plausible slip: an entry that is present is kept.
SetVariant_KeepFirst(vm, base_name, kind, mat) ==
    IF base_name \in DOMAIN vm /\ kind \in DOMAIN vm[base_name] THEN vm
    ELSE (base_name :> ((kind :> mat)
                        @@ (IF base_name \in DOMAIN vm THEN vm[base_name] ELSE <<>>)))
         @@ vm

\* self.variant_material_map[base_name][variant_type] = mat_def
SetVariant(vm, base_name, kind, mat) ==
    (base_name :> ((kind :> mat)
                   @@ (IF base_name \in DOMAIN vm THEN vm[base_name] ELSE <<>>)))
    @@ vm

\* one iteration of the loop over obj_arr
VariantStep(o, om, md, vm) ==
    IF IsInstance(o, T_Mesh) /\ o[P_extensions] # <<>>
       /\ variant_type(o[A_name]) # None
    THEN Only({ IF t.found
                THEN SetVariant(vm, get_base_name(o[A_name]),
                                variant_type(o[A_name]), t.mat)
                ELSE vm
                : t \in {TraceMaterial(o, om, md)} })
    ELSE vm

\* the iterations over the elements lo..hi of obj_arr
RECURSIVE VariantLoop(_, _, _, _, _, _)
VariantLoop(arr, lo, hi, om, md, vm) ==
    IF lo > hi THEN vm
    ELSE IF lo = hi THEN VariantStep(arr[lo], om, md, vm)
    ELSE Only({ VariantLoop(arr, (lo + hi) \div 2 + 1, hi, om, md, half)
                : half \in {VariantLoop(arr, lo, (lo + hi) \div 2, om, md, vm)} })

build_variant_map(arr, om, md, vm) == VariantLoop(arr, 1, Len(arr), om, md, vm)

(***************************************************************************)
(* build_blender_scene and what it calls, as far as the reader is          *)
(* concerned: which exception, if any, leaves it, and whether an armature  *)
(* was made.  The calls into Blender are taken to succeed; the scene holds *)
(* no armature before the import.                                          *)
(***************************************************************************)
\* text.split('/')[-1]
SplitLast(text) ==
    LET S == {i \in 1..Len(text) : text[i] = "/"}
    IN  IF S = {} THEN text
        ELSE SubSeq(text, (CHOOSE i \in S : \A j \in S : j <= i) + 1, Len(text))

\* get_data_buffer(os.path.join(self.directory, name + ".data"), kind)
LoadBuffer(sc, cutv, directory, name, kind) ==
    LET path == join(directory, SplitLast(name) \o Ext_data)
        exists == FileAt(sc.files, sc.cwd, path) # {}
    IN  get_data_buffer(exists, IF exists THEN Content(sc, cutv, path) ELSE <<>>,
                        kind)

\* build_skeleton: raised iff a bone that is created lacks an attribute
\* the second loop reads; an armature is made iff bones is not empty
build_skeleton(skel_obj, om) ==
    LET bones == skel_obj[P_bones]
        created == {i \in 1..Len(bones) :
                       /\ MapHas(om, bones[i])
                       /\ HasAttr(MapGet(om, bones[i]), P_assetName)
                       /\ MapGet(om, bones[i])[P_assetName] # <<>>}
    IN  IF bones = <<>> THEN [raised |-> FALSE, made |-> FALSE]
        ELSE IF \E i \in created :
                    \E a \in {P_parent, P_rootPosition, P_rootRotation} :
                        ~HasAttr(MapGet(om, bones[i]), a)
        THEN [raised |-> TRUE, made |-> FALSE]
        ELSE [raised |-> FALSE, made |-> TRUE]

\* apply_skinning_data: the dict comprehension indexes bindPoseMatrices by
\* the positions of boneNames
apply_skinning_data(render_ext_obj, om, armature) ==
    LET clusters == {i \in 1..Len(om) :
                        /\ IsInstance(om[i][2], T_SkinCluster)
                        /\ EndsWith(om[i][2][A_name], render_ext_obj[A_name])}
    IN  IF clusters = {} \/ ~armature THEN [raised |-> FALSE]
        ELSE LET skin_cluster ==
                     om[CHOOSE i \in clusters : \A j \in clusters : i <= j][2]
             IN  [raised |->
                    /\ skin_cluster[P_bindPoseMatrices] # <<>>
                    /\ Len(skin_cluster[P_boneNames])
                           > Len(skin_cluster[P_bindPoseMatrices])]

\* the loop over render_ext_obj.batches: batch.start // 3 and
\* batch_poly_start + batch.numTris
BatchRaises(batch_ref, om, md) ==
    /\ MapHas(om, batch_ref.name)
    /\ LET batch == MapGet(om, batch_ref.name)
       IN  /\ HasAttr(batch, P_materialDefinition)
           /\ MapHas(md, batch[P_materialDefinition].name)
           /\ \E a \in {P_start, P_numTris} : ~HasAttr(batch, a) \/ batch[a].none

build_meshes(render_ext_obj, vert_buffer, face_buffer, om, md, armature) ==
    LET r == render_ext_obj
        Returned == [raised |-> FALSE, built |-> FALSE]
        Raised == [raised |-> TRUE, built |-> FALSE]
    IN  IF ~HasAttr(r, P_baseVertexIndex) \/ ~HasAttr(r, P_numVerts) THEN Raised
        ELSE IF r[P_baseVertexIndex] + r[P_numVerts] > Len(vert_buffer)
                \/ r[P_numVerts] = 0
        THEN Returned
        ELSE IF ~HasAttr(r, P_baseElemIndex) \/ ~HasAttr(r, P_numElems) THEN Raised
        ELSE IF FloorDiv(r[P_baseElemIndex], 3) + FloorDiv(r[P_numElems], 3)
                    > Len(face_buffer)
                \/ FloorDiv(r[P_numElems], 3) = 0
        THEN Returned
        ELSE IF ~HasAttr(r, P_batches) THEN Raised
        ELSE IF \E i \in 1..Len(r[P_batches]) : BatchRaises(r[P_batches][i], om, md)
        THEN Raised
        ELSE [raised |-> apply_skinning_data(r, om, armature).raised,
              built |-> TRUE]

\* the loop over scene_root.children from position i on
RECURSIVE ChildrenLoop(_, _, _, _, _, _, _, _)
ChildrenLoop(children, i, om, md, vert_buffer, face_buffer, armature, built) ==
    IF i > Len(children)
    THEN [raised |-> FALSE, armature |-> armature, built |-> built]
    ELSE IF ~MapHas(om, children[i].name)
    THEN ChildrenLoop(children, i + 1, om, md, vert_buffer, face_buffer,
                      armature, built)
    ELSE LET o == MapGet(om, children[i].name) IN
         IF IsInstance(o, T_Skeleton)
         THEN LET s == build_skeleton(o, om) IN
              IF s.raised
              THEN [raised |-> TRUE, armature |-> armature, built |-> built]
              ELSE ChildrenLoop(children, i + 1, om, md, vert_buffer,
                                face_buffer, armature \/ s.made, built)
         ELSE IF /\ IsInstance(o, T_Mesh)
                 /\ o[P_extensions] # <<>>
                 /\ variant_type(o[A_name]) = None
                 /\ MapHas(om, o[P_extensions][1].name)
                 /\ vert_buffer # <<>>
                 /\ face_buffer # <<>>
         THEN LET b == build_meshes(MapGet(om, o[P_extensions][1].name),
                                    vert_buffer, face_buffer, om, md, armature)
              IN  IF b.raised
                  THEN [raised |-> TRUE, armature |-> armature, built |-> built]
                  ELSE ChildrenLoop(children, i + 1, om, md, vert_buffer,
                                    face_buffer, armature,
                                    IF b.built
                                    THEN Append(built, o[P_extensions][1].name)
                                    ELSE built)
         ELSE ChildrenLoop(children, i + 1, om, md, vert_buffer, face_buffer,
                           armature, built)

build_blender_scene(sc, cutv, directory, arr, om, md) ==
    LET roots == {i \in 1..Len(arr) : IsInstance(arr[i], T_SceneRoot)}
        Nothing == [raised |-> FALSE, armature |-> FALSE, built |-> <<>>]
    IN  IF roots = {} THEN Nothing
        ELSE LET scene_root == arr[CHOOSE i \in roots : \A j \in roots : i <= j]
                 g == scene_root[P_geometryBuffer].name
                 has_gbuf == g # <<>> /\ MapHas(om, g)
             IN  IF has_gbuf /\ (~HasAttr(MapGet(om, g), P_verts)
                                 \/ ~HasAttr(MapGet(om, g), P_elems))
                 THEN [raised |-> TRUE, armature |-> FALSE, built |-> <<>>]
                 ELSE LET geom_data ==
                              IF has_gbuf
                              THEN LoadBuffer(sc, cutv, directory,
                                       MapGet(om, g)[P_verts].name, "GEOMETRY")
                              ELSE BufNone
                          elem_data ==
                              IF has_gbuf
                              THEN LoadBuffer(sc, cutv, directory,
                                       MapGet(om, g)[P_elems].name, "ELEMS")
                              ELSE BufNone
                      IN  ChildrenLoop(scene_root[P_children], 1, om, md,
                                       geom_data.verts, elem_data.faces,
                                       FALSE, <<>>)

(***************************************************************************)
(* TLGReader.read, step by step: parse_file on the entry file, the two     *)
(* scans of load_dependencies, the material cache, build_variant_map and   *)
(* build_blender_scene.  parse_file is one step up to its object loop,     *)
(* then one step per block head and one per pass of the property loop.     *)
(***************************************************************************)
MaxCalls == 1

NoProp == [set |-> FALSE, start |-> 0, len |-> 0]
NoCall == [path |-> Path(FALSE, <<>>), loaded |-> FALSE]

ReaderInit ==
    /\ scn \in Scenes
    /\ cut \in 0..EntryLen(scn)
    /\ pc = "start"
    /\ ret = "entry"
    /\ queue = <<>>
    /\ filepath = Path(FALSE, <<>>)
    /\ cursor = 0
    /\ data_strings = <<>>
    /\ blocks_left = 0
    /\ obj = <<>>
    /\ prop_end = Unbound
    /\ obj_arr = <<>>
    /\ object_map = <<>>
    /\ loaded_files = {}
    /\ material_definitions = <<>>
    /\ variant_material_map = <<>>
    /\ armature_object = FALSE
    /\ result = None
    /\ decoded = <<>>
    /\ last_prop = NoProp
    /\ calls = 0
    /\ call = NoCall

ReaderIdle ==
    /\ scn = "plain"
    /\ cut = 0
    /\ pc = "idle"
    /\ ret = "entry"
    /\ queue = <<>>
    /\ filepath = Path(FALSE, <<>>)
    /\ cursor = 0
    /\ data_strings = <<>>
    /\ blocks_left = 0
    /\ obj = <<>>
    /\ prop_end = Unbound
    /\ obj_arr = <<>>
    /\ object_map = <<>>
    /\ loaded_files = {}
    /\ material_definitions = <<>>
    /\ variant_material_map = <<>>
    /\ armature_object = FALSE
    /\ result = None
    /\ decoded = <<>>
    /\ last_prop = NoProp
    /\ calls = 0
    /\ call = NoCall

\* self.directory, self.base_game_dir
directory == dirname(Scene(scn).filepath)
base_game_dir == find_game_base_dir(directory)
materials_dir == join(base_game_dir.path, W_MATERIALS)

\* the bytes of the file parse_file has open
FileBytes == Content(Scene(scn), cut, filepath)

\* parse_file(p) called from r, for a path that is not in loaded_files: the
\* path is added, the file opened and read up to the object loop
ParseFileFrom(p, r) ==
    \E o \in {OpenFile(Scene(scn), cut, p, data_strings)} :
    /\ loaded_files' = loaded_files \cup {abspath(Scene(scn).cwd, p)}
    /\ decoded' = Append(decoded, Resolve(Scene(scn).cwd, p))
    /\ data_strings' = o.ds
    /\ filepath' = p
    /\ ret' = r
    /\ cursor' = o.cursor
    /\ blocks_left' = o.blocks_left
    /\ pc' = "blocks"

\* read(): self.parse_file(self.filepath)
ReadStart ==
    /\ pc = "start"
    /\ ParseFileFrom(Scene(scn).filepath, "entry")
    /\ UNCHANGED <<scn, cut, queue, obj, prop_end, obj_arr, object_map,
                   material_definitions, variant_material_map,
                   armature_object, result, last_prop, calls, call>>
    /\ UNCHANGED others_r

\* parse_object_block: the type or name index cannot be read; `return`
BlockReturned ==
    /\ pc = "blocks"
    /\ blocks_left > 0
    /\ \E h \in {BlockHead(FileBytes, data_strings, cursor)} :
       /\ h.kind = "returned"
       /\ cursor' = h.pos
    /\ blocks_left' = blocks_left - 1
    /\ UNCHANGED <<scn, cut, pc, ret, queue, filepath, data_strings, obj,
                   prop_end, obj_arr, object_map, loaded_files,
                   material_definitions, variant_material_map,
                   armature_object, result, decoded, last_prop, calls,
                   call>>
    /\ UNCHANGED others_r

\* parse_object_block: an index outside the string table; the exception
\* leaves it and parse_file gives the file up
BlockRaised ==
    /\ pc = "blocks"
    /\ blocks_left > 0
    /\ \E h \in {BlockHead(FileBytes, data_strings, cursor)} :
       /\ h.kind = "raised"
       /\ cursor' = h.pos
    /\ blocks_left' = 0
    /\ UNCHANGED <<scn, cut, pc, ret, queue, filepath, data_strings, obj,
                   prop_end, obj_arr, object_map, loaded_files,
                   material_definitions, variant_material_map,
                   armature_object, result, decoded, last_prop, calls,
                   call>>
    /\ UNCHANGED others_r

\* parse_object_block: the head is read and obj made
BlockObject ==
    /\ pc = "blocks"
    /\ blocks_left > 0
    /\ \E h \in {BlockHead(FileBytes, data_strings, cursor)} :
       /\ h.kind = "object"
       /\ cursor' = h.pos
       /\ obj' = h.obj
    /\ prop_end' = Unbound
    /\ last_prop' = NoProp
    /\ pc' = "props"
    /\ UNCHANGED <<scn, cut, ret, queue, filepath, data_strings, blocks_left,
                   obj_arr, object_map, loaded_files, material_definitions,
                   variant_material_map, armature_object, result, decoded,
                   calls, call>>
    /\ UNCHANGED others_r

\* one pass of the property loop that ends in self.file.seek(prop_end)
PropSeeked ==
    /\ pc = "props"
    /\ \E w \in {WhilePass(FileBytes, data_strings, obj, cursor, prop_end)} :
       /\ w.kind = "seeked"
       /\ obj' = w.obj
       /\ cursor' = w.pos
       /\ prop_end' = w.prop_end
       /\ last_prop' = [set |-> TRUE, start |-> w.start, len |-> w.len]
    /\ UNCHANGED <<scn, cut, pc, ret, queue, filepath, data_strings,
                   blocks_left, obj_arr, object_map, loaded_files,
                   material_definitions, variant_material_map,
                   armature_object, result, decoded, calls, call>>
    /\ UNCHANGED others_r

\* one pass of the property loop that a decoder leaves by `continue`
PropContinued ==
    /\ pc = "props"
    /\ \E w \in {WhilePass(FileBytes, data_strings, obj, cursor, prop_end)} :
       /\ w.kind = "continued"
       /\ obj' = w.obj
       /\ cursor' = w.pos
       /\ prop_end' = w.prop_end
       /\ last_prop' = [set |-> TRUE, start |-> w.start, len |-> w.len]
    /\ UNCHANGED <<scn, cut, pc, ret, queue, filepath, data_strings,
                   blocks_left, obj_arr, object_map, loaded_files,
                   material_definitions, variant_material_map,
                   armature_object, result, decoded, calls, call>>
    /\ UNCHANGED others_r

\* the terminator: obj is merged at the end of the try block and again
\* after the try statement
PropBreak ==
    /\ pc = "props"
    /\ \E w \in {WhilePass(FileBytes, data_strings, obj, cursor, prop_end)} :
       \E g \in {Merged(Merged([obj_arr |-> obj_arr, object_map |-> object_map],
                               w.obj), w.obj)} :
           /\ w.kind = "break"
           /\ cursor' = w.pos
           /\ obj_arr' = g.obj_arr
           /\ object_map' = g.object_map
    /\ last_prop' = NoProp
    /\ blocks_left' = blocks_left - 1
    /\ pc' = "blocks"
    /\ UNCHANGED <<scn, cut, ret, queue, filepath, data_strings, obj, prop_end,
                   loaded_files, material_definitions,
                   variant_material_map, armature_object, result, decoded,
                   calls, call>>
    /\ UNCHANGED others_r

\* an exception in the loop, caught by the outer except: obj is merged
\* after the try statement
PropCaught ==
    /\ pc = "props"
    /\ \E w \in {WhilePass(FileBytes, data_strings, obj, cursor, prop_end)} :
       \E g \in {Merged([obj_arr |-> obj_arr, object_map |-> object_map],
                        w.obj)} :
           /\ w.kind = "caught"
           /\ cursor' = w.pos
           /\ obj_arr' = g.obj_arr
           /\ object_map' = g.object_map
    /\ last_prop' = NoProp
    /\ blocks_left' = blocks_left - 1
    /\ pc' = "blocks"
    /\ UNCHANGED <<scn, cut, ret, queue, filepath, data_strings, obj, prop_end,
                   loaded_files, material_definitions,
                   variant_material_map, armature_object, result, decoded,
                   calls, call>>
    /\ UNCHANGED others_r

\* an exception in the loop and another in the outer except: it leaves
\* parse_object_block and parse_file gives the file up
PropRaised ==
    /\ pc = "props"
    /\ \E w \in {WhilePass(FileBytes, data_strings, obj, cursor, prop_end)} :
       /\ w.kind = "raised"
       /\ cursor' = w.pos
    /\ last_prop' = NoProp
    /\ blocks_left' = 0
    /\ pc' = "blocks"
    /\ UNCHANGED <<scn, cut, ret, queue, filepath, data_strings, obj, prop_end,
                   obj_arr, object_map, loaded_files, material_definitions,
                   variant_material_map, armature_object, result, decoded,
                   calls, call>>
    /\ UNCHANGED others_r

\* parse_file returns to its caller
FileDone ==
    /\ pc = "blocks"
    /\ blocks_left = 0
    /\ pc' = CASE ret = "entry" -> "globdir"
               [] ret = "dir" -> "dir"
               [] ret = "mat" -> "mat"
               [] ret = "client" -> "done"
    /\ UNCHANGED <<scn, cut, ret, queue, filepath, cursor, data_strings,
                   blocks_left, obj, prop_end, obj_arr, object_map,
                   loaded_files, material_definitions,
                   variant_material_map, armature_object, result, decoded,
                   last_prop, calls, call>>
    /\ UNCHANGED others_r

\* load_dependencies: glob.glob(os.path.join(self.directory, "*.bod"))
GlobSameDir ==
    /\ pc = "globdir"
    /\ queue' \in Orders(GlobDir(Scene(scn).files, Scene(scn).cwd, directory))
    /\ pc' = "dir"
    /\ UNCHANGED <<scn, cut, ret, filepath, cursor, data_strings, blocks_left,
                   obj, prop_end, obj_arr, object_map, loaded_files,
                   material_definitions, variant_material_map,
                   armature_object, result, decoded, last_prop, calls,
                   call>>
    /\ UNCHANGED others_r

\* the same-directory loop, over a path that is loaded
DirSkip ==
    /\ pc = "dir"
    /\ queue # <<>>
    /\ abspath(Scene(scn).cwd, Head(queue)) \in loaded_files
    /\ queue' = Tail(queue)
    /\ UNCHANGED <<scn, cut, pc, ret, filepath, cursor, data_strings,
                   blocks_left, obj, prop_end, obj_arr, object_map,
                   loaded_files, material_definitions,
                   variant_material_map, armature_object, result, decoded,
                   last_prop, calls, call>>
    /\ UNCHANGED others_r

\* the same-directory loop, over a path that is not
DirParse ==
    /\ pc = "dir"
    /\ queue # <<>>
    /\ abspath(Scene(scn).cwd, Head(queue)) \notin loaded_files
    /\ queue' = Tail(queue)
    /\ ParseFileFrom(Head(queue), "dir")
    /\ UNCHANGED <<scn, cut, obj, prop_end, obj_arr, object_map,
                   material_definitions, variant_material_map,
                   armature_object, result, last_prop, calls, call>>
    /\ UNCHANGED others_r

\* the recursive glob of MATERIALS, if there is a GAME directory and it
\* has one
GlobMaterials ==
    /\ pc = "dir"
    /\ queue = <<>>
    /\ IF ~base_game_dir.none
          /\ DirExists(Scene(scn).files, Scene(scn).cwd, materials_dir)
       THEN queue' \in Orders(GlobRecursive(Scene(scn).files, Scene(scn).cwd,
                                            materials_dir))
       ELSE queue' = <<>>
    /\ pc' = "mat"
    /\ UNCHANGED <<scn, cut, ret, filepath, cursor, data_strings, blocks_left,
                   obj, prop_end, obj_arr, object_map, loaded_files,
                   material_definitions, variant_material_map,
                   armature_object, result, decoded, last_prop, calls,
                   call>>
    /\ UNCHANGED others_r

\* the MATERIALS loop, over a path that is loaded
MatSkip ==
    /\ pc = "mat"
    /\ queue # <<>>
    /\ abspath(Scene(scn).cwd, Head(queue)) \in loaded_files
    /\ queue' = Tail(queue)
    /\ UNCHANGED <<scn, cut, pc, ret, filepath, cursor, data_strings,
                   blocks_left, obj, prop_end, obj_arr, object_map,
                   loaded_files, material_definitions,
                   variant_material_map, armature_object, result, decoded,
                   last_prop, calls, call>>
    /\ UNCHANGED others_r

\* the MATERIALS loop, over a path that is not
MatParse ==
    /\ pc = "mat"
    /\ queue # <<>>
    /\ abspath(Scene(scn).cwd, Head(queue)) \notin loaded_files
    /\ queue' = Tail(queue)
    /\ ParseFileFrom(Head(queue), "mat")
    /\ UNCHANGED <<scn, cut, obj, prop_end, obj_arr, object_map,
                   material_definitions, variant_material_map,
                   armature_object, result, last_prop, calls, call>>
    /\ UNCHANGED others_r

\* the end of load_dependencies: the MaterialDefinitions are cached
CacheMaterials ==
    /\ pc = "mat"
    /\ queue = <<>>
    /\ material_definitions' =
           CacheMaterialDefinitions(obj_arr, 1, Len(obj_arr),
                                    material_definitions)
    /\ pc' = "variants"
    /\ UNCHANGED <<scn, cut, ret, queue, filepath, cursor, data_strings,
                   blocks_left, obj, prop_end, obj_arr, object_map,
                   loaded_files, variant_material_map, armature_object,
                   result, decoded, last_prop, calls, call>>
    /\ UNCHANGED others_r

\* A plausible slip: the builder takes the objects it has handled off the
\* list.
ReadOnly_Consumed(arr, om) ==
    [obj_arr |-> IF arr = <<>> THEN arr ELSE Tail(arr), object_map |-> om]

\* self.obj_arr and self.object_map as build_variant_map and
\* build_blender_scene leave them: the two, and build_meshes, build_skeleton
\* and apply_skinning_data below them, read the list, the dict and the
\* attributes of the objects and assign to none of them
ReadOnly(arr, om) == [obj_arr |-> arr, object_map |-> om]

\* read(): self.build_variant_map()
BuildVariantMap ==
    /\ pc = "variants"
    /\ \E g \in {ReadOnly(obj_arr, object_map)} :
           obj_arr' = g.obj_arr /\ object_map' = g.object_map
    /\ variant_material_map' =
           build_variant_map(obj_arr, object_map, material_definitions,
                             variant_material_map)
    /\ pc' = "scene"
    /\ UNCHANGED <<scn, cut, ret, queue, filepath, cursor, data_strings,
                   blocks_left, obj, prop_end,
                   loaded_files, material_definitions, armature_object,
                   result, decoded, last_prop, calls, call>>
    /\ UNCHANGED others_r

\* read(): self.build_blender_scene(), and what read() returns
BuildScene ==
    /\ pc = "scene"
    /\ \E b \in {build_blender_scene(Scene(scn), cut, directory, obj_arr,
                                     object_map, material_definitions)} :
           /\ armature_object' = b.armature
           /\ result' = IF b.raised THEN "CANCELLED" ELSE "FINISHED"
    /\ \E g \in {ReadOnly(obj_arr, object_map)} :
           obj_arr' = g.obj_arr /\ object_map' = g.object_map
    /\ pc' = "done"
    /\ UNCHANGED <<scn, cut, ret, queue, filepath, cursor, data_strings,
                   blocks_left, obj, prop_end,
                   loaded_files, material_definitions,
                   variant_material_map, decoded, last_prop, calls, call>>
    /\ UNCHANGED others_r


\* the paths parse_file is called with once read() has returned
ClientPaths ==
    {Scene(scn).filepath, abspath(Scene(scn).cwd, Scene(scn).filepath),
     join(directory, F_none)}

\* parse_file(p) for a path that is in loaded_files: `return`
ParseFileSkip ==
    /\ pc = "done"
    /\ calls < MaxCalls
    /\ \E p \in ClientPaths :
          /\ abspath(Scene(scn).cwd, p) \in loaded_files
          /\ call' = [path |-> p, loaded |-> TRUE]
    /\ calls' = calls + 1
    /\ UNCHANGED <<scn, cut, pc, ret, queue, filepath, cursor, data_strings,
                   blocks_left, obj, prop_end, obj_arr, object_map,
                   loaded_files, material_definitions,
                   variant_material_map, armature_object, result, decoded,
                   last_prop>>
    /\ UNCHANGED others_r

\* parse_file(p) for a path that is not
ParseFileAgain ==
    /\ pc = "done"
    /\ calls < MaxCalls
    /\ \E p \in ClientPaths :
          /\ abspath(Scene(scn).cwd, p) \notin loaded_files
          /\ call' = [path |-> p, loaded |-> FALSE]
          /\ ParseFileFrom(p, "client")
    /\ calls' = calls + 1
    /\ UNCHANGED <<scn, cut, queue, obj, prop_end, obj_arr, object_map,
                   material_definitions, variant_material_map,
                   armature_object, result, last_prop>>
    /\ UNCHANGED others_r


Next ==
    \/ ReadStart \/ BlockReturned \/ BlockRaised \/ BlockObject
    \/ PropSeeked \/ PropContinued \/ PropBreak \/ PropCaught \/ PropRaised
    \/ FileDone \/ GlobSameDir \/ DirSkip \/ DirParse \/ GlobMaterials
    \/ MatSkip \/ MatParse \/ CacheMaterials \/ BuildVariantMap \/ BuildScene
    \/ ParseFileSkip \/ ParseFileAgain

(***************************************************************************)
(* C1: whenever the property loop is about to read the next property's     *)
(* string-table index, the file cursor is at property_start + declared     *)
(* length of the property it has just handled (property_start being the    *)
(* position right after the length field), for every declared length >= 0. *)
(***************************************************************************)
C1_CursorAtPropEnd ==
    (pc = "props" /\ last_prop.set /\ last_prop.len >= 0)
        => cursor = last_prop.start + last_prop.len

(***************************************************************************)
(* C2: once the entry file, whole and with k well-formed blocks of         *)
(* distinct names, is loaded, obj_arr has exactly k elements and           *)
(* object_map exactly k keys, k being the object count its header          *)
(* declares.                                                               *)
(***************************************************************************)
C2_Declared ==
    read_longs(Bytes((CHOOSE g \in FileAt(Scene(scn).files, Scene(scn).cwd,
                                          Scene(scn).filepath) : TRUE).data),
               0, 7).v[7]

C2_OneEntryPerBlock ==
    (pc = "globdir" /\ cut = EntryLen(scn))
        => /\ Len(obj_arr) = C2_Declared
           /\ Cardinality(MapKeys(object_map)) = C2_Declared

(***************************************************************************)
(* C3: read() always returns FINISHED, whatever the files hold; it never   *)
(* returns CANCELLED.                                                      *)
(***************************************************************************)
C3_AlwaysFinished == pc = "done" => result = "FINISHED"

(***************************************************************************)
(* C6: after build_variant_map, for every Mesh of obj_arr whose name holds *)
(* a variant marker and whose chain first extension -> RenderExt -> first  *)
(* batch -> RenderBatch -> materialDefinition resolves, the entry          *)
(* variant_material_map[get_base_name(name)][kind] is that                 *)
(* MaterialDefinition; and every entry of the map comes from such a mesh.  *)
(* As amended: the entry is the MaterialDefinition of the last such mesh   *)
(* of obj_arr with that base name and kind.                                *)
(***************************************************************************)
C6_Kind(name) ==
    IF StrIn(Sfx_fresnel, name) THEN "fresnel" ELSE "fur"

\* obj_arr[i] is a variant mesh whose chain resolves to mat
C6_Resolves(i, mat) ==
    LET o == obj_arr[i] IN
    /\ o[A_type] = T_Mesh
    /\ StrIn(Sfx_fresnel, o[A_name]) \/ StrIn(Sfx_fur, o[A_name])
    /\ o[P_extensions] # <<>>
    /\ \E x, b \in 1..Len(object_map) : \E m \in 1..Len(material_definitions) :
          /\ object_map[x][1] = o[P_extensions][1].name
          /\ P_batches \in DOMAIN object_map[x][2]
          /\ object_map[x][2][P_batches] # <<>>
          /\ object_map[b][1] = object_map[x][2][P_batches][1].name
          /\ P_materialDefinition \in DOMAIN object_map[b][2]
          /\ material_definitions[m][1]
                = object_map[b][2][P_materialDefinition].name
          /\ mat = material_definitions[m][2]

C6_Materials == {material_definitions[m][2] : m \in 1..Len(material_definitions)}

C6_Entry(base_name, kind, mat) ==
    /\ base_name \in DOMAIN variant_material_map
    /\ kind \in DOMAIN variant_material_map[base_name]
    /\ variant_material_map[base_name][kind] = mat

C6_SameSlot(i, j) ==
    /\ get_base_name(obj_arr[i][A_name]) = get_base_name(obj_arr[j][A_name])
    /\ C6_Kind(obj_arr[i][A_name]) = C6_Kind(obj_arr[j][A_name])

C6_OnlyFromMeshes ==
    \A base_name \in DOMAIN variant_material_map :
        \A kind \in DOMAIN variant_material_map[base_name] :
            \E i \in 1..Len(obj_arr) :
                /\ C6_Resolves(i, variant_material_map[base_name][kind])
                /\ get_base_name(obj_arr[i][A_name]) = base_name
                /\ C6_Kind(obj_arr[i][A_name]) = kind

\* as claimed: every such mesh has its own MaterialDefinition in the map
C6_EveryVariantMapped ==
    pc = "scene" =>
        /\ \A i \in 1..Len(obj_arr) : \A mat \in C6_Materials :
              C6_Resolves(i, mat)
                  => C6_Entry(get_base_name(obj_arr[i][A_name]),
                              C6_Kind(obj_arr[i][A_name]), mat)
        /\ C6_OnlyFromMeshes

\* as amended: the last such mesh of its base name and kind has
C6_LastVariantWins ==
    pc = "scene" =>
        /\ \A i \in 1..Len(obj_arr) : \A mat \in C6_Materials :
              (/\ C6_Resolves(i, mat)
               /\ \A j \in (i + 1)..Len(obj_arr) :
                     C6_SameSlot(i, j) => ~\E m2 \in C6_Materials :
                                               C6_Resolves(j, m2))
                  => C6_Entry(get_base_name(obj_arr[i][A_name]),
                              C6_Kind(obj_arr[i][A_name]), mat)
        /\ C6_OnlyFromMeshes

\* two meshes of one base name and kind resolve to different materials, and
\* a mesh whose chain does not resolve is there as well
C6_Witness ==
    /\ pc = "scene"
    /\ \E i, j \in 1..Len(obj_arr) : \E m1, m2 \in C6_Materials :
          /\ i < j
          /\ C6_SameSlot(i, j)
          /\ C6_Resolves(i, m1)
          /\ C6_Resolves(j, m2)
          /\ m1 # m2
          /\ C6_Entry(get_base_name(obj_arr[j][A_name]),
                      C6_Kind(obj_arr[j][A_name]), m2)
    /\ \E i \in 1..Len(obj_arr) :
          /\ obj_arr[i][A_name] = N_K_fur
          /\ \A mat \in C6_Materials : ~C6_Resolves(i, mat)

(***************************************************************************)
(* C7: no file is decoded twice by one reader, over the entry file, the    *)
(* same-directory scan and the MATERIALS scan; and parse_file on a path    *)
(* whose absolute form is in loaded_files changes neither obj_arr nor      *)
(* object_map.                                                             *)
(***************************************************************************)
C7_NoFileTwice ==
    \A i, j \in 1..Len(decoded) : i # j => decoded[i] # decoded[j]

C7_SkipChangesNothing ==
    [][(calls' # calls
        /\ abspath(Scene(scn).cwd, call'.path) \in loaded_files)
          => (obj_arr' = obj_arr /\ object_map' = object_map)]_vars

C7_ParsedAtMostOnce == []C7_NoFileTwice /\ C7_SkipChangesNothing

\* the entry file lies in MATERIALS and is spelled with a "." component:
\* both scans met it and skipped it, and so did a later parse_file
C7_Witness ==
    /\ scn = "materials"
    /\ pc = "done"
    /\ calls > 0
    /\ abspath(Scene(scn).cwd, call.path) \in loaded_files
    /\ Len(decoded) = 1
    /\ obj_arr # <<>>

(***************************************************************************)
(* TLGAnimReader: the animation container.  raw_data is the whole file;    *)
(* every read is a slice of it handed to struct.unpack, which raises       *)
(* struct.error when the slice is short.  A float is carried as the four   *)
(* bytes that store it, read as a little-endian word.                      *)
(***************************************************************************)
ClipThreshold == 200
POINTER_FIX == 16
addr_name_offsets_list == 48
SubHeaderSize == 16

\* A plausible slip: the track table is taken to follow the sub-header
\* immediately.
MultiTableStart_AfterSubHeader == SubHeaderSize

MultiTableStart == 32
SingleTableStart == 48
SingleOffsetFix == 16
TrackStride == 32
SampleSize == 12
NameFallback == 128

\* self.raw_data[a:b]
Slice(bytes, a, b) ==
    IF a >= Len(bytes) \/ b <= a THEN <<>>
    ELSE SubSeq(bytes, a + 1, Min2(b, Len(bytes)))

U32(b) == b[1] + 256 * b[2] + 65536 * b[3] + 16777216 * b[4]

\* struct.unpack of count four-byte fields from raw_data[pos : pos + 4 * count]
Unpack(bytes, pos, count) ==
    IF pos + 4 * count > Len(bytes)
    THEN [err |-> TRUE, v |-> <<>>]
    ELSE [err |-> FALSE,
          v |-> [k \in 1..count |->
                    U32(SubSeq(bytes, pos + 4 * k - 3, pos + 4 * k))]]

\* raw_data.find(b'\0', start)
RECURSIVE Find(_, _)
Find(bytes, start) ==
    IF start >= Len(bytes) THEN -1
    ELSE IF bytes[start + 1] = 0 THEN start
    ELSE Find(bytes, start + 1)

\* is_multi_animation
is_multi_animation_AtLeast(field_0x10) == field_0x10 >= ClipThreshold

is_multi_animation(field_0x10) == field_0x10 > ClipThreshold

\* the key counts _parse_tracks derives from the flag
trans_keys_NoFive(flag, num_frames) ==
    IF flag \in {0, 3, 4} THEN num_frames ELSE 1

trans_keys(flag, num_frames) == IF flag \in {0, 3, 4, 5} THEN num_frames ELSE 1
rot_keys(flag, num_frames) == IF flag \in {0, 4, 6} THEN num_frames ELSE 1
scale_keys(flag, num_frames) == IF flag \in {0, 3} THEN num_frames ELSE 1

\* Vector((x, y, z)) and Quaternion((w, x, y, z)); w is the reconstruction
\* modelled by quat_w and is left out here
Sample(data_type, xyz) == [type |-> data_type, default |-> FALSE, xyz |-> xyz]
\* Vector((0, 0, 0)) for 'vec3', else Quaternion((1, 0, 0, 0))
DefaultSample(data_type) ==
    IF data_type = "vec3"
    THEN [type |-> data_type, default |-> TRUE, xyz |-> <<0, 0, 0>>]
    ELSE [type |-> data_type, default |-> TRUE, w |-> 1, xyz |-> <<0, 0, 0>>]

\* A plausible slip: no test of the block's end before the loop, so that
\* every chunk that is short gets its own default from the except clause.
_unpack_data_NoBoundsCheck(bytes, start_offset, num_keys, data_type) ==
    [k \in 1..num_keys |->
        IF Unpack(bytes, start_offset + SampleSize * (k - 1), 3).err
        THEN DefaultSample(data_type)
        ELSE Sample(data_type,
                    Unpack(bytes, start_offset + SampleSize * (k - 1), 3).v)]

\* A plausible slip: a block past the end of the buffer gives no sample.
_unpack_data_NoDefault(bytes, start_offset, num_keys, data_type) ==
    IF start_offset + SampleSize * num_keys > Len(bytes)
    THEN <<>>
    ELSE [k \in 1..num_keys |->
             Sample(data_type,
                    Unpack(bytes, start_offset + SampleSize * (k - 1), 3).v)]

_unpack_data(bytes, start_offset, num_keys, data_type) ==
    IF start_offset + SampleSize * num_keys > Len(bytes)
    THEN <<DefaultSample(data_type)>>
    ELSE [k \in 1..num_keys |->
             Sample(data_type,
                    Unpack(bytes, start_offset + SampleSize * (k - 1), 3).v)]

\* the bone name of a track entry
BoneName(bytes, bone_name_addr) ==
    Only({ Decode(IF end_index # -1
                  THEN Slice(bytes, bone_name_addr, end_index)
                  ELSE Slice(bytes, bone_name_addr, bone_name_addr + NameFallback))
           : end_index \in {Find(bytes, bone_name_addr)} })

\* what one pass of _parse_tracks' loop stores under the bone name
Track(bytes, i, entry_offset, e, num_frames, base_addr, offset_fix) ==
    [index |-> i,
     entry_offset |-> entry_offset,
     flag |-> e[1],
     ptrs |-> [T |-> e[2], R |-> e[3], S |-> e[4], name |-> e[5]],
     bone_name_addr |-> base_addr + e[5] + offset_fix,
     addrs |-> [T |-> base_addr + e[2] + offset_fix,
                R |-> base_addr + e[3] + offset_fix,
                S |-> base_addr + e[4] + offset_fix],
     keys |-> [T |-> trans_keys(e[1], num_frames),
               R |-> rot_keys(e[1], num_frames),
               S |-> scale_keys(e[1], num_frames)],
     T |-> _unpack_data(bytes, base_addr + e[2] + offset_fix,
                        trans_keys(e[1], num_frames), "vec3"),
     R |-> _unpack_data(bytes, base_addr + e[3] + offset_fix,
                        rot_keys(e[1], num_frames), "quat"),
     S |-> _unpack_data(bytes, base_addr + e[4] + offset_fix,
                        scale_keys(e[1], num_frames), "vec3")]

\* animation_data_cache[bone_name] = ...
CachePut(m, k, v) ==
    IF \E j \in 1..Len(m) : m[j][1] = k
    THEN [j \in 1..Len(m) |-> IF m[j][1] = k THEN <<k, v>> ELSE m[j]]
    ELSE Append(m, <<k, v>>)

\* _parse_tracks from pass i on; cache is animation_data_cache
RECURSIVE TracksFrom(_, _, _, _, _, _, _, _)
TracksFrom(bytes, i, num_entries, num_frames, start, base_addr, fix, cache) ==
    IF i >= num_entries THEN [raised |-> FALSE, tracks |-> cache]
    ELSE Only({
        IF e.err THEN [raised |-> TRUE, tracks |-> cache]
        ELSE TracksFrom(bytes, i + 1, num_entries, num_frames, start,
                 base_addr, fix,
                 CachePut(cache,
                     BoneName(bytes, base_addr + e.v[5] + fix),
                     Track(bytes, i, base_addr + start + i * TrackStride,
                           e.v, num_frames, base_addr, fix)))
        : e \in {Unpack(bytes, base_addr + start + i * TrackStride, 5)} })

\* start is info_table_start, fix is offset_fix
_parse_tracks(bytes, num_entries, num_frames, start, base_addr, fix) ==
    TracksFrom(bytes, 0, num_entries, num_frames, start, base_addr, fix, <<>>)

\* frame_rate or 30
RateOr30(frame_rate) == IF frame_rate = 0 THEN 30 ELSE frame_rate

AnimData(name, base_addr, h, tracks) ==
    [name |-> name, base_addr |-> base_addr, frame_count |-> h[4],
     frame_rate |-> RateOr30(h[1]), tracks |-> tracks]

NoAnim == AnimData(<<>>, 0, <<0, 0, 0, 0>>, <<>>)

\* what a step of read() came to: anim_data is set when a clip was decoded
Parsed(anim_data) == [raised |-> FALSE, anim_data |-> anim_data]
ParseRaised == [raised |-> TRUE, anim_data |-> NoAnim]

\* _parse_single_animation_file; the name is the file's, taken as given
_parse_single_animation_file(bytes, name) ==
    Only({ IF h.err THEN ParseRaised
           ELSE Only({ IF t.raised THEN ParseRaised
                       ELSE Parsed(AnimData(name, 0, h.v, t.tracks))
                       : t \in {_parse_tracks(bytes, h.v[3], h.v[4],
                                    SingleTableStart, 0, SingleOffsetFix)} })
           : h \in {IF Len(bytes) < 32 THEN [err |-> TRUE, v |-> <<>>]
                    ELSE Unpack(bytes, 16, 4)} })

\* the three pointers of the multi-clip header
MultiHeader(bytes) ==
    Only({ IF a.err \/ b.err \/ c.err THEN [err |-> TRUE]
           ELSE [err |-> FALSE,
                 p_name_list |-> a.v[1],
                 addr_anim_offsets_list |-> b.v[1] + POINTER_FIX,
                 addr_anim_info_block |-> c.v[1] + POINTER_FIX]
           : a \in {Unpack(bytes, 24, 1)}, b \in {Unpack(bytes, 32, 1)},
             c \in {Unpack(bytes, 36, 1)} })

\* raw_data[name_addr:].split(b'\0', 1)[0].decode('ascii', 'ignore')
NameAt(bytes, name_addr) ==
    Only({ Decode(IF end_index # -1
                  THEN Slice(bytes, name_addr, end_index)
                  ELSE Slice(bytes, name_addr, Len(bytes)))
           : end_index \in {Find(bytes, name_addr)} })

\* f"animation_{i}"
Txt_animation == <<"a", "n", "i", "m", "a", "t", "i", "o", "n", "_">>
ClipName(anim_name, i) ==
    IF anim_name = <<>> THEN Append(Txt_animation, i) ELSE anim_name

\* A plausible slip: a clip that cannot be decoded is passed over as an
\* empty clip and the loop goes on.
ParseClip_Swallowed(bytes, hd, i) == Parsed(NoAnim)

\* steps 1 and 2 of one pass of the multi-clip loop
ParseClip(bytes, hd, i) ==
    Only({
        IF n.err \/ o.err THEN ParseRaised
        ELSE Only({
            IF h.err THEN ParseRaised
            ELSE Only({
                IF t.raised THEN ParseRaised
                ELSE Parsed(AnimData(
                         ClipName(SplitLast(NameAt(bytes,
                             hd.p_name_list + POINTER_FIX + n.v[1])), i),
                         hd.addr_anim_info_block + o.v[1], h.v, t.tracks))
                : t \in {_parse_tracks(bytes, h.v[3], h.v[4], MultiTableStart,
                             hd.addr_anim_info_block + o.v[1], 0)} })
            : h \in {Unpack(bytes, hd.addr_anim_info_block + o.v[1], 4)} })
        : n \in {Unpack(bytes, addr_name_offsets_list + 4 * i, 1)},
          o \in {Unpack(bytes, hd.addr_anim_offsets_list + 4 * i, 1)} })

\* the bones of the armature handed to the reader
N_B0 == <<"B", "0">>
ArmatureBones == {N_B0, N_B1}

\* t_idx, r_idx, s_idx
ChannelIndex_Frame(samples, frame_idx) == frame_idx

ChannelIndex(samples, frame_idx) == IF Len(samples) > 1 THEN frame_idx ELSE 0

Components ==
    <<[path |-> "location", channel |-> "T", size |-> 3],
      [path |-> "rotation_quaternion", channel |-> "R", size |-> 4],
      [path |-> "scale", channel |-> "S", size |-> 3]>>

\* the fcurves batch_load_fcurves fills for one bone: num_frames keyframe
\* points each, at frames 1..num_frames
BoneCurves(bone_name, track_data, num_frames) ==
    LET Curves(c) ==
            [k \in 1..c.size |->
                [bone |-> bone_name, path |-> c.path, index |-> k - 1,
                 keyframe_points |->
                     [f \in 1..num_frames |->
                         [frame |-> f,
                          sample |-> ChannelIndex(track_data[c.channel],
                                                  f - 1)]]]]
    IN  Curves(Components[1]) \o Curves(Components[2]) \o Curves(Components[3])

\* whether filling the arrays of one bone indexes a channel past its end
IndexRaises(track_data, num_frames) ==
    \E f \in 0..(num_frames - 1), ch \in {"T", "R", "S"} :
        ~PyIndexOK(track_data[ch], ChannelIndex(track_data[ch], f))

\* the loop over track_data_cache.items(), from item k on
RECURSIVE ApplyFrom(_, _, _, _)
ApplyFrom(tracks, k, num_frames, fcurves) ==
    IF k > Len(tracks) THEN [raised |-> FALSE, fcurves |-> fcurves]
    ELSE IF tracks[k][1] \notin ArmatureBones
    THEN ApplyFrom(tracks, k + 1, num_frames, fcurves)
    ELSE IF IndexRaises(tracks[k][2], num_frames)
    THEN [raised |-> TRUE, fcurves |-> fcurves]
    ELSE ApplyFrom(tracks, k + 1, num_frames,
             fcurves \o BoneCurves(tracks[k][1], tracks[k][2], num_frames))

apply_animation_to_bones(anim_data) ==
    IF anim_data.frame_count = 0 THEN [raised |-> FALSE, fcurves |-> <<>>]
    ELSE ApplyFrom(anim_data.tracks, 1, anim_data.frame_count, <<>>)

(***************************************************************************)
(* The animation files.  A clip is a 16-byte sub-header, 16 reserved       *)
(* bytes, four track entries, the bone names and three stored samples.     *)
(* The pointers of an entry are offsets from the sub-header.  A file with  *)
(* more than ClipThreshold clips holds two such clips, which the clip      *)
(* table names in turn; any other file holds one clip after its 16-byte    *)
(* preamble.                                                               *)
(***************************************************************************)
MaxFlag == 7
MaxFrames == 3

Zeros(n) == [k \in 1..n |-> 0]

TrackEntry(flag, ptr_trans, ptr_rot, ptr_scale, ptr_bone_name) ==
    LE32(flag) \o LE32(ptr_trans) \o LE32(ptr_rot) \o LE32(ptr_scale)
    \o LE32(ptr_bone_name) \o Zeros(12)

StoredSample(k) == LE32(k) \o LE32(k + 16) \o LE32(k + 32)

ClipBlock(rate, flag, frames) ==
    LE32(rate) \o Zeros(4) \o LE32(4) \o LE32(frames) \o Zeros(16)
    \o TrackEntry(flag, 176, 176, 176, 160)
    \o TrackEntry(0, 188, 188, 188, 163)
    \o TrackEntry(6, 176, 176, 176, 166)
    \o TrackEntry(1, 176, 188, 200, 163)
    \o Enc(N_B0) \o <<0>> \o Enc(N_B1) \o <<0>> \o Enc(N_zz) \o Zeros(8)
    \o StoredSample(1) \o StoredSample(2) \o StoredSample(3)

Txt_a_walk == <<"a", "/", "w", "a", "l", "k">>

MultiFile(magic, n, flag, frames) ==
    magic \o Zeros(12) \o LE32(n) \o Zeros(4) \o LE32(32 + 8 * n) \o Zeros(4)
    \o LE32(32 + 4 * n) \o LE32(40 + 8 * n) \o Zeros(8)
    \o Zeros(4 * n)
    \o Flatten([k \in 1..n |-> LE32(((k - 1) % 2) * 224)])
    \o Enc(Txt_a_walk) \o Zeros(2)
    \o ClipBlock(30, flag, frames) \o Zeros(12)
    \o ClipBlock(30, flag, frames)

AnimFile(magic, field, flag, frames) ==
    IF field > ClipThreshold THEN MultiFile(magic, field, flag, frames)
    ELSE magic \o Zeros(12) \o ClipBlock(field, flag, frames)

Magic_CDAX == Enc(<<"C", "D", "A", "X">>)
N_walk == <<"w", "a", "l", "k">>

AnimFields == {0, 30, ClipThreshold, ClipThreshold + 1}

\* the lengths a file is cut to: the whole file and a few shorter ones
AnimCuts(len) ==
    {c \in {0, 2, 18, 30, 50} \cup {len - k : k \in {0, 13, 40, 100, 240}} :
        0 <= c /\ c <= len}

AnimInit ==
    /\ a_pc = "start"
    /\ a_magic \in {Magic_CDAT, Magic_CDAX}
    /\ a_field \in AnimFields
    /\ a_flag \in 0..MaxFlag
    /\ a_frames \in 0..MaxFrames
    /\ a_cut \in AnimCuts(Len(AnimFile(a_magic, a_field, a_flag, a_frames)))
    /\ a_mode = "none"
    /\ a_num = 0
    /\ a_i = 0
    /\ a_applied = <<>>
    /\ a_clip = NoAnim
    /\ a_keys = <<>>
    /\ a_result = "none"

AnimIdle ==
    /\ a_pc = "idle"
    /\ a_magic = <<>>
    /\ a_field = 0
    /\ a_flag = 0
    /\ a_frames = 0
    /\ a_cut = 0
    /\ a_mode = "none"
    /\ a_num = 0
    /\ a_i = 0
    /\ a_applied = <<>>
    /\ a_clip = NoAnim
    /\ a_keys = <<>>
    /\ a_result = "none"

\* self.raw_data
raw_data == SubSeq(AnimFile(a_magic, a_field, a_flag, a_frames), 1, a_cut)

\* the magic is not CDAT, or the field at 0x10 cannot be unpacked
AnimRejected ==
    /\ a_pc = "start"
    /\ \E bytes \in {raw_data} :
           Slice(bytes, 0, 4) # Magic_CDAT \/ Unpack(bytes, 16, 1).err
    /\ a_result' = "CANCELLED"
    /\ a_pc' = "done"
    /\ UNCHANGED <<a_magic, a_field, a_flag, a_frames, a_cut, a_mode, a_num,
                   a_i, a_applied, a_clip, a_keys>>
    /\ UNCHANGED others_a

\* the else branch: _parse_single_animation_file, then the clip is applied
AnimSingle ==
    /\ a_pc = "start"
    /\ \E bytes \in {raw_data} :
        /\ Slice(bytes, 0, 4) = Magic_CDAT
        /\ ~Unpack(bytes, 16, 1).err
        /\ ~is_multi_animation(Unpack(bytes, 16, 1).v[1])
        /\ \E p \in {_parse_single_animation_file(bytes, N_walk)} :
            IF p.raised
            THEN /\ a_result' = "CANCELLED"
                 /\ UNCHANGED <<a_applied, a_clip, a_keys>>
            ELSE \E r \in {apply_animation_to_bones(p.anim_data)} :
                    /\ a_applied' = Append(a_applied, 0)
                    /\ a_clip' = p.anim_data
                    /\ a_keys' = r.fcurves
                    /\ a_result' = IF r.raised THEN "CANCELLED" ELSE "FINISHED"
    /\ a_mode' = "single"
    /\ a_pc' = "done"
    /\ UNCHANGED <<a_magic, a_field, a_flag, a_frames, a_cut, a_num, a_i>>
    /\ UNCHANGED others_a

\* the multi-clip branch up to its loop
AnimMulti ==
    /\ a_pc = "start"
    /\ \E bytes \in {raw_data} :
        /\ Slice(bytes, 0, 4) = Magic_CDAT
        /\ ~Unpack(bytes, 16, 1).err
        /\ is_multi_animation(Unpack(bytes, 16, 1).v[1])
        /\ a_num' = Unpack(bytes, 16, 1).v[1]
        /\ IF MultiHeader(bytes).err
           THEN a_result' = "CANCELLED" /\ a_pc' = "done"
           ELSE a_result' = a_result /\ a_pc' = "clips"
    /\ a_mode' = "multi"
    /\ UNCHANGED <<a_magic, a_field, a_flag, a_frames, a_cut, a_i, a_applied,
                   a_clip, a_keys>>
    /\ UNCHANGED others_a

\* one pass of `for i in range(num_anims)`
AnimClip ==
    /\ a_pc = "clips"
    /\ a_i < a_num
    /\ \E bytes \in {raw_data} :
       \E p \in {ParseClip(bytes, MultiHeader(bytes), a_i)} :
            IF p.raised
            THEN /\ a_result' = "CANCELLED"
                 /\ a_pc' = "done"
                 /\ UNCHANGED <<a_i, a_applied, a_clip, a_keys>>
            ELSE \E r \in {apply_animation_to_bones(p.anim_data)} :
                    /\ a_applied' = Append(a_applied, a_i)
                    /\ a_clip' = p.anim_data
                    /\ a_keys' = r.fcurves
                    /\ IF r.raised
                       THEN a_result' = "CANCELLED" /\ a_pc' = "done"
                                /\ a_i' = a_i
                       ELSE a_result' = a_result /\ a_pc' = "clips"
                                /\ a_i' = a_i + 1
    /\ UNCHANGED <<a_magic, a_field, a_flag, a_frames, a_cut, a_mode, a_num>>
    /\ UNCHANGED others_a

\* the loop is exhausted
AnimFinished ==
    /\ a_pc = "clips"
    /\ a_i = a_num
    /\ a_result' = "FINISHED"
    /\ a_pc' = "done"
    /\ UNCHANGED <<a_magic, a_field, a_flag, a_frames, a_cut, a_mode, a_num,
                   a_i, a_applied, a_clip, a_keys>>
    /\ UNCHANGED others_a

AnimNext ==
    \/ AnimRejected
    \/ AnimSingle
    \/ AnimMulti
    \/ AnimClip
    \/ AnimFinished

(***************************************************************************)
(* C11: for a clip with frame count N >= 1 handed to                       *)
(* apply_animation_to_bones, every bone that has a track and is a bone of  *)
(* the armature gets exactly one fcurve for each of its 10 components      *)
(* (location 0..2, rotation_quaternion 0..3, scale 0..2), each holding     *)
(* exactly N keyframes, at frames 1..N, whatever the flag of the track.    *)
(***************************************************************************)
C11_Components ==
    {<<"location", k>> : k \in 0..2}
    \cup {<<"rotation_quaternion", k>> : k \in 0..3}
    \cup {<<"scale", k>> : k \in 0..2}

C11_Curves(bone, c) ==
    {j \in 1..Len(a_keys) :
        a_keys[j].bone = bone /\ a_keys[j].path = c[1] /\ a_keys[j].index = c[2]}

C11_FramesOneToN(points, N) ==
    Len(points) = N /\ \A f \in 1..N : points[f].frame = f

C11_EveryBoneKeyed ==
    (a_applied # <<>> /\ a_clip.frame_count >= 1) =>
        /\ Cardinality(C11_Components) = 10
        /\ \A t \in 1..Len(a_clip.tracks) :
               a_clip.tracks[t][1] \in ArmatureBones =>
                   \A c \in C11_Components :
                       /\ Cardinality(C11_Curves(a_clip.tracks[t][1], c)) = 1
                       /\ \A j \in C11_Curves(a_clip.tracks[t][1], c) :
                              C11_FramesOneToN(a_keys[j].keyframe_points,
                                               a_clip.frame_count)

\* a two-frame clip whose first track holds one constant sample per channel
\* (flag 1) has been applied: both bones of the armature are keyed
C11_Witness ==
    /\ a_pc = "done"
    /\ a_result = "FINISHED"
    /\ a_clip.frame_count = 2
    /\ a_clip.tracks # <<>>
    /\ a_clip.tracks[1][1] = N_B0
    /\ a_clip.tracks[1][2].flag = 1
    /\ Len(a_clip.tracks[1][2].T) = 1
    /\ Len(a_keys) = 20

(***************************************************************************)
(* C12: in _parse_tracks the number of samples asked for per channel       *)
(* follows the flag: translation frame_count samples when the flag is in   *)
(* {0,3,4,5}, rotation when it is in {0,4,6}, scale when it is in {0,3};   *)
(* for every other flag the channel has exactly one sample.  (With a       *)
(* frame count other than 1 the channel has frame_count samples iff the    *)
(* flag is in the set.)                                                    *)
(***************************************************************************)
C12_Rule(keys, flag, framed, N) ==
    /\ flag \in framed => keys = N
    /\ flag \notin framed => keys = 1
    /\ N # 1 => (keys = N <=> flag \in framed)

C12_KeyCounts ==
    \A t \in 1..Len(a_clip.tracks) :
        /\ C12_Rule(a_clip.tracks[t][2].keys.T, a_clip.tracks[t][2].flag,
                    {0, 3, 4, 5}, a_clip.frame_count)
        /\ C12_Rule(a_clip.tracks[t][2].keys.R, a_clip.tracks[t][2].flag,
                    {0, 4, 6}, a_clip.frame_count)
        /\ C12_Rule(a_clip.tracks[t][2].keys.S, a_clip.tracks[t][2].flag,
                    {0, 3}, a_clip.frame_count)

\* a three-frame clip with a track of flag 5 (translation alone is framed)
\* and a track of flag 6 (rotation alone is framed) has been decoded
C12_Witness ==
    /\ a_clip.frame_count = 3
    /\ \E t \in 1..Len(a_clip.tracks) :
           /\ a_clip.tracks[t][2].flag = 5
           /\ a_clip.tracks[t][2].keys = [T |-> 3, R |-> 1, S |-> 1]
    /\ \E t \in 1..Len(a_clip.tracks) :
           /\ a_clip.tracks[t][2].flag = 6
           /\ a_clip.tracks[t][2].keys = [T |-> 1, R |-> 3, S |-> 1]

(***************************************************************************)
(* C15: a file whose magic is CDAT and whose uint32 at offset 0x10 can be  *)
(* read is decoded as multi-clip, with that value as the clip count, iff   *)
(* the value exceeds 200, and as one clip otherwise; a file whose magic is *)
(* not CDAT has no clip applied and read() returns CANCELLED.              *)
(***************************************************************************)
C15_IsCDAT == Slice(raw_data, 0, 4) = Magic_CDAT
C15_Field == U32(SubSeq(raw_data, 17, 20))

C15_Detection ==
    a_pc \in {"clips", "done"} =>
        /\ (C15_IsCDAT /\ Len(raw_data) >= 20) =>
               /\ a_mode = "multi" <=> C15_Field > 200
               /\ a_mode = "single" <=> C15_Field <= 200
               /\ a_mode = "multi" =>
                      /\ a_num = C15_Field
                      /\ a_i <= a_num
                      /\ Len(a_applied) <= a_num
                      /\ a_result = "FINISHED" => Len(a_applied) = C15_Field
               /\ a_mode = "single" =>
                      /\ Len(a_applied) <= 1
                      /\ a_result = "FINISHED" => Len(a_applied) = 1
        /\ ~C15_IsCDAT =>
               /\ a_mode = "none"
               /\ a_applied = <<>>
               /\ a_pc = "done"
               /\ a_result = "CANCELLED"

\* a file holding 201 at offset 0x10 has been read to its end as 201 clips
C15_Witness ==
    /\ a_pc = "done"
    /\ a_mode = "multi"
    /\ C15_IsCDAT
    /\ C15_Field = 201
    /\ a_result = "FINISHED"
    /\ Len(a_applied) = 201

(***************************************************************************)
(* C16: in a multi-clip container the track table of a clip begins 32      *)
(* bytes after the base of its sub-header, that is 16 bytes after the end  *)
(* of the 16-byte sub-header (track i at base + 32 + 32 * i), and every    *)
(* pointer of a track is dereferenced at base + pointer, with no +16.      *)
(***************************************************************************)
C16_Relative(tr, base) ==
    /\ tr.bone_name_addr = base + tr.ptrs.name
    /\ tr.addrs.T = base + tr.ptrs.T
    /\ tr.addrs.R = base + tr.ptrs.R
    /\ tr.addrs.S = base + tr.ptrs.S

C16_SubHeaderAt(base) ==
    /\ ~Unpack(raw_data, base, 4).err
    /\ Unpack(raw_data, base, 4).v[4] = a_clip.frame_count

C16_TableAfterReserved ==
    (a_mode = "multi" /\ a_applied # <<>>) =>
        /\ C16_SubHeaderAt(a_clip.base_addr)
        /\ \A t \in 1..Len(a_clip.tracks) :
               /\ a_clip.tracks[t][2].entry_offset =
                      a_clip.base_addr + 32 + 32 * a_clip.tracks[t][2].index
               /\ C16_Relative(a_clip.tracks[t][2], a_clip.base_addr)

\* the statement as made: the table follows the sub-header immediately
C16_TableAfterSubHeader ==
    (a_mode = "multi" /\ a_applied # <<>>) =>
        /\ C16_SubHeaderAt(a_clip.base_addr)
        /\ \A t \in 1..Len(a_clip.tracks) :
               /\ a_clip.tracks[t][2].entry_offset =
                      a_clip.base_addr + SubHeaderSize
                      + 32 * a_clip.tracks[t][2].index
               /\ C16_Relative(a_clip.tracks[t][2], a_clip.base_addr)

\* the second clip of a container has been decoded: its three bones were
\* found through the table at base + 32
C16_Witness ==
    /\ a_mode = "multi"
    /\ Len(a_applied) = 2
    /\ a_clip.base_addr > 0
    /\ Len(a_clip.tracks) = 3
    /\ a_clip.tracks[1][1] = N_B0
    /\ a_clip.tracks[1][2].index = 0
    /\ a_clip.tracks[1][2].entry_offset = a_clip.base_addr + 32
    /\ a_clip.tracks[2][1] = N_B1
    /\ a_clip.tracks[2][2].index = 3
    /\ a_clip.tracks[3][1] = N_zz

(***************************************************************************)
(* C13: an object decoded from a block whose type is not one of the ten    *)
(* known types carries its name and its type and nothing else, whatever    *)
(* the names of its properties.                                            *)
(***************************************************************************)
C13_UnknownIsBare ==
    \A i \in 1..Len(obj_arr) :
        obj_arr[i][A_type] \notin KnownTypes =>
            DOMAIN obj_arr[i] = {A_name, A_type}

(***************************************************************************)
(* C14: a pass of the property loop in which the decoder of the payload    *)
(* raises, the end of the property being an offset the file can seek to,   *)
(* leaves the object as it was (the fields set by earlier properties keep  *)
(* their values), leaves the cursor at the end of the property and goes on *)
(* to the next property; and a block that ends at the terminator or in     *)
(* the outer except clause adds its object, with those fields, to obj_arr  *)
(* and object_map.                                                         *)
(***************************************************************************)
C14_Pass == WhilePass(FileBytes, data_strings, obj, cursor, prop_end)

C14_Keeps(before, after) ==
    \A a \in DOMAIN before : a \in DOMAIN after /\ after[a] = before[a]

C14_PayloadRaised ==
    pc = "props" /\ C14_Pass.exc /\ C14_Pass.prop_end.v >= 0

C14_GoesOn ==
    C14_PayloadRaised =>
        /\ pc' = "props"
        /\ cursor' = C14_Pass.prop_end.v
        /\ obj' = obj
        /\ obj_arr' = obj_arr
        /\ object_map' = object_map

C14_Added ==
    (pc = "props" /\ C14_Pass.kind \in {"break", "caught"}) =>
        /\ C14_Keeps(obj, obj_arr'[Len(obj_arr')])
        /\ MapHas(object_map', obj[A_name])
        /\ C14_Keeps(obj, MapGet(object_map', obj[A_name]))

C17_Header == read_longs(FileBytes, 0, 7).v

C17_TableShort ==
    /\ C17_Header # <<>>
    /\ C17_Header[4] >= 0
    /\ \/ read_long(FileBytes, C17_Header[4]).none
       \/ Len(data_strings) < read_long(FileBytes, C17_Header[4]).v

C17_TableAborts ==
    (ret = "entry" /\ pc \in {"blocks", "props"} /\ C17_TableShort) =>
        /\ pc = "blocks"
        /\ obj_arr = <<>>
        /\ object_map = <<>>

(***************************************************************************)
(* C18: a call of parse_file on a file whose 7-integer header cannot be    *)
(* read leaves obj_arr, object_map and data_strings as they were and runs  *)
(* no pass of the object loop; and once load_dependencies has returned     *)
(* every file its two scans found has been opened by parse_file, a file    *)
(* with such a header among them or not.                                   *)
(***************************************************************************)
C18_HeaderShort(p) ==
    /\ FileAt(Scene(scn).files, Scene(scn).cwd, p) # {}
    /\ read_longs(Content(Scene(scn), cut, p), 0, 7).v = <<>>

C18_Scanned ==
    GlobDir(Scene(scn).files, Scene(scn).cwd, directory)
    \cup (IF ~base_game_dir.none
             /\ DirExists(Scene(scn).files, Scene(scn).cwd, materials_dir)
          THEN GlobRecursive(Scene(scn).files, Scene(scn).cwd, materials_dir)
          ELSE {})

C18_Opened == {decoded[k] : k \in 1..Len(decoded)}

C18_ContributesNothing ==
    (decoded' # decoded /\ C18_HeaderShort(filepath')) =>
        /\ obj_arr' = obj_arr
        /\ object_map' = object_map
        /\ data_strings' = data_strings
        /\ blocks_left' = 0
        /\ pc' = "blocks"

C18_RestParsed ==
    pc \in {"variants", "scene", "done"} =>
        \A p \in C18_Scanned : Resolve(Scene(scn).cwd, p) \in C18_Opened

C18_ShortHeaderSkipped == [][C18_ContributesNothing]_vars /\ []C18_RestParsed

\* cut.bod was opened after a file that left strings behind and before
\* m.bod, whose two MaterialDefinitions were merged afterwards
C18_Witness ==
    /\ scn = "odd"
    /\ pc = "done"
    /\ Len(decoded) = 3
    /\ decoded[2] = Dir_odd \o <<F_cut>>
    /\ decoded[3] = Dir_odd \o <<F_m>>
    /\ cut = EntryLen("odd")
    /\ MapHas(object_map, N_M1)
    /\ MapHas(object_map, N_X)

(***************************************************************************)
(* C19: when the scene is built from a whole entry file, every SkinCluster *)
(* of object_map has as many boneNames as bindPoseMatrices.                *)
(***************************************************************************)
C19_LengthsAgree ==
    (pc \in {"scene", "done"} /\ cut = EntryLen(scn)) =>
        \A i \in 1..Len(object_map) :
            IsInstance(object_map[i][2], T_SkinCluster) =>
                Len(object_map[i][2][P_boneNames])
                    = Len(object_map[i][2][P_bindPoseMatrices])

(***************************************************************************)
(* C20: material_definitions and variant_material_map change only once     *)
(* every file (the entry file, the files of its directory, the files under *)
(* MATERIALS) has been opened by parse_file; when build_variant_map runs,  *)
(* material_definitions holds, under its name, a MaterialDefinition of     *)
(* obj_arr for every MaterialDefinition of obj_arr.                        *)
(***************************************************************************)
C20_AllParsed ==
    /\ Resolve(Scene(scn).cwd, Scene(scn).filepath) \in C18_Opened
    /\ \A p \in C18_Scanned : Resolve(Scene(scn).cwd, p) \in C18_Opened
    /\ pc \in {"mat", "variants"}
    /\ queue = <<>>

C20_BuiltLast ==
    (\/ material_definitions' # material_definitions
     \/ variant_material_map' # variant_material_map) => C20_AllParsed

C20_CacheComplete ==
    pc = "variants" =>
        \A i \in 1..Len(obj_arr) :
            IsInstance(obj_arr[i], T_MaterialDefinition) =>
                /\ MapHas(material_definitions, obj_arr[i][A_name])
                /\ \E j \in 1..Len(obj_arr) :
                       /\ obj_arr[j] = MapGet(material_definitions,
                                              obj_arr[i][A_name])
                       /\ IsInstance(obj_arr[j], T_MaterialDefinition)

C20_MaterialsAfterFiles == [][C20_BuiltLast]_vars /\ []C20_CacheComplete

\* a variant mesh of the entry file hat.bod is mapped to a material that
\* m.bod under MATERIALS defines and parse_file opened after hat.bod
C20_Witness ==
    /\ scn = "variants"
    /\ pc = "scene"
    /\ Len(decoded) >= 2
    /\ decoded[1] = Dir_hat \o <<F_hat>>
    /\ \E k \in 2..Len(decoded) : decoded[k] = Dir_materials \o <<D_sub, F_m>>
    /\ \E b \in DOMAIN variant_material_map :
           \E k \in DOMAIN variant_material_map[b] :
               /\ variant_material_map[b][k][A_name] \in {N_M1, N_M2}
               /\ MapHas(material_definitions,
                         variant_material_map[b][k][A_name])

(***************************************************************************)
(* C25: in a clip that was decoded, a channel whose block of samples,      *)
(* start_offset + 12 * num_keys, ends past the end of the buffer is one    *)
(* default sample (the zero vector for translation and scale, the          *)
(* quaternion (1, 0, 0, 0) for rotation); every other channel holds its    *)
(* num_keys stored samples; the loop over the track entries ran to its     *)
(* last entry; and the clip was applied: each of its bones that the        *)
(* armature has is keyed.                                                  *)
(***************************************************************************)
C25_Channels == <<[ch |-> "T", type |-> "vec3"], [ch |-> "R", type |-> "quat"],
                  [ch |-> "S", type |-> "vec3"]>>

C25_PastEnd(bytes, tr, c) ==
    tr.addrs[c.ch] + 12 * tr.keys[c.ch] > Len(bytes)

C25_IsDefault(samples, c) ==
    /\ Len(samples) = 1
    /\ samples[1].default
    /\ samples[1].xyz = <<0, 0, 0>>
    /\ c.type = "quat" => samples[1].w = 1
    /\ c.type = "vec3" => DOMAIN samples[1] = {"type", "default", "xyz"}

C25_IsStored(bytes, samples, tr, c) ==
    /\ Len(samples) = tr.keys[c.ch]
    /\ \A k \in 1..Len(samples) :
           /\ ~samples[k].default
           /\ samples[k].xyz =
                  [j \in 1..3 |->
                      U32(SubSeq(bytes,
                                 tr.addrs[c.ch] + 12 * (k - 1) + 4 * j - 3,
                                 tr.addrs[c.ch] + 12 * (k - 1) + 4 * j))]

C25_Keyed(bone) == \E j \in 1..Len(a_keys) : a_keys[j].bone = bone

C25_DefaultOnOverrun ==
    a_applied # <<>> =>
        /\ \E bytes \in {raw_data} :
           \A t \in 1..Len(a_clip.tracks) : \A n \in 1..3 :
               IF C25_PastEnd(bytes, a_clip.tracks[t][2], C25_Channels[n])
               THEN C25_IsDefault(a_clip.tracks[t][2][C25_Channels[n].ch],
                                  C25_Channels[n])
               ELSE C25_IsStored(bytes, a_clip.tracks[t][2][C25_Channels[n].ch],
                                 a_clip.tracks[t][2], C25_Channels[n])
        /\ \E t \in 1..Len(a_clip.tracks) : a_clip.tracks[t][2].index = 3
        /\ a_clip.frame_count >= 1 =>
               \A t \in 1..Len(a_clip.tracks) :
                   a_clip.tracks[t][1] \in ArmatureBones =>
                       C25_Keyed(a_clip.tracks[t][1])

\* a three-frame clip of a file cut inside its last two samples: the track
\* of B0 asked for three samples per channel and has one default per
\* channel, the track of B1 (flag 1) has its stored translation and
\* defaults for rotation and scale, and both bones are keyed
C25_Witness ==
    /\ a_pc = "done"
    /\ a_result = "FINISHED"
    /\ a_mode = "single"
    /\ a_clip.frame_count = 3
    /\ \E t \in 1..Len(a_clip.tracks) :
           /\ a_clip.tracks[t][1] = N_B0
           /\ a_clip.tracks[t][2].keys.T = 3
           /\ C25_PastEnd(raw_data, a_clip.tracks[t][2], C25_Channels[1])
           /\ Len(a_clip.tracks[t][2].T) = 1
    /\ \E t \in 1..Len(a_clip.tracks) :
           /\ a_clip.tracks[t][1] = N_B1
           /\ ~C25_PastEnd(raw_data, a_clip.tracks[t][2], C25_Channels[1])
           /\ ~a_clip.tracks[t][2].T[1].default
           /\ C25_PastEnd(raw_data, a_clip.tracks[t][2], C25_Channels[2])
           /\ a_clip.tracks[t][2].R[1].default
    /\ C25_Keyed(N_B0)
    /\ C25_Keyed(N_B1)

(***************************************************************************)
(* C28: every channel of every track of a decoded clip with frame count N  *)
(* has 1 or N samples, none only when N = 0; so for every frame index      *)
(* below N the index apply_animation_to_bones uses (the frame index when   *)
(* the channel has more than one sample, else 0) is below the channel's    *)
(* length, and apply_animation_to_bones raises nothing.                    *)
(***************************************************************************)
C28_Lengths(samples, N) ==
    /\ Len(samples) \in {1, N}
    /\ Len(samples) = 0 => N = 0

C28_IndexValid(samples, N) ==
    \A frame_idx \in 0..(N - 1) :
        (IF Len(samples) > 1 THEN frame_idx ELSE 0) < Len(samples)

C28_NeverPastEnd ==
    a_applied # <<>> =>
        /\ \A t \in 1..Len(a_clip.tracks) : \A ch \in {"T", "R", "S"} :
               /\ C28_Lengths(a_clip.tracks[t][2][ch], a_clip.frame_count)
               /\ C28_IndexValid(a_clip.tracks[t][2][ch], a_clip.frame_count)
        /\ ~apply_animation_to_bones(a_clip).raised

\* a three-frame clip has a channel of three samples and a channel of one
\* on the same bone (flag 5), and was applied to the bones
C28_Witness ==
    /\ a_pc = "done"
    /\ a_result = "FINISHED"
    /\ a_clip.frame_count = 3
    /\ \E t \in 1..Len(a_clip.tracks) :
           /\ a_clip.tracks[t][1] = N_B0
           /\ Len(a_clip.tracks[t][2].T) = 3
           /\ Len(a_clip.tracks[t][2].R) = 1
    /\ Len(a_keys) = 20

(***************************************************************************)
(* C30: in a multi-clip container the clips applied so far are the clips   *)
(* 0, 1, ..., in that order, and while the loop runs they are the clips    *)
(* below the loop index; a pass whose clip cannot be decoded (its name     *)
(* offset, its info offset or its sub-header cannot be unpacked) applies   *)
(* nothing, makes read return CANCELLED and ends the loop; and once read   *)
(* has returned no clip is parsed or applied.                              *)
(***************************************************************************)
C30_InOrder ==
    a_mode = "multi" =>
        /\ a_applied = [k \in 1..Len(a_applied) |-> k - 1]
        /\ a_pc = "clips" => (Len(a_applied) = a_i /\ a_result = "none")
        /\ (a_pc = "done" /\ a_result = "FINISHED") => Len(a_applied) = a_num

C30_Unreadable(i) ==
    \/ Unpack(raw_data, addr_name_offsets_list + 4 * i, 1).err
    \/ Unpack(raw_data, MultiHeader(raw_data).addr_anim_offsets_list + 4 * i,
              1).err
    \/ Unpack(raw_data,
              MultiHeader(raw_data).addr_anim_info_block
              + Unpack(raw_data,
                       MultiHeader(raw_data).addr_anim_offsets_list + 4 * i,
                       1).v[1],
              4).err

C30_FailureStops ==
    (a_pc = "clips" /\ a_i < a_num /\ C30_Unreadable(a_i)) =>
        /\ a_result' = "CANCELLED"
        /\ a_pc' = "done"
        /\ a_applied' = a_applied
        /\ a_clip' = a_clip
        /\ a_keys' = a_keys

C30_OneAtATime ==
    (a_pc = "clips" /\ a_applied' # a_applied) =>
        /\ a_applied' = Append(a_applied, a_i)
        /\ a_i' = a_i + 1
        /\ a_clip'.base_addr =
               MultiHeader(raw_data).addr_anim_info_block
               + Unpack(raw_data,
                        MultiHeader(raw_data).addr_anim_offsets_list + 4 * a_i,
                        1).v[1]

C30_Returned == a_pc = "done" => UNCHANGED vars_a

C30_ClipsInOrder ==
    []C30_InOrder /\ [][C30_FailureStops /\ C30_OneAtATime /\ C30_Returned]_vars

\* in a container cut inside its second clip block, clip 0 was applied and
\* clip 1 could not be decoded: read returned CANCELLED with clip 0 applied
C30_Witness ==
    /\ a_mode = "multi"
    /\ a_pc = "done"
    /\ a_result = "CANCELLED"
    /\ a_applied = <<0>>
    /\ a_i = 1
    /\ a_clip.base_addr = MultiHeader(raw_data).addr_anim_info_block
    /\ C30_Unreadable(1)

(***************************************************************************)
(* C23: get_data_buffer returns data only for a file that exists, has a    *)
(* 16-byte header with the magic CDAT and has, as its stride, the constant *)
(* of the kind asked for (32 for GEOMETRY, 2 for ELEMS); with another      *)
(* magic, another stride, a short header or a body shorter than its        *)
(* records it returns None.  The data it returns holds byteLength div 32   *)
(* vertices, or byteLength div 6 triangles, when byteLength is not         *)
(* negative, and no record when byteLength is negative.                    *)
(***************************************************************************)
C23_HeaderRead == Len(d_file.bytes) >= 16
C23_Magic == SubSeq(d_file.bytes, 1, 4)
C23_Stride == I32(SubSeq(d_file.bytes, 9, 12))
C23_ByteLength == I32(SubSeq(d_file.bytes, 13, 16))
C23_KindStride == IF d_kind = "GEOMETRY" THEN 32 ELSE 2
C23_RecordSize == IF d_kind = "GEOMETRY" THEN 32 ELSE 6
C23_Records ==
    IF d_kind = "GEOMETRY" THEN Len(d_out.verts) ELSE Len(d_out.faces)

\* the count of records the header announces: byteLength div the record size
C23_Announced ==
    IF C23_ByteLength >= 0 THEN C23_ByteLength \div C23_RecordSize
    ELSE 0 - ((0 - C23_ByteLength + C23_RecordSize - 1) \div C23_RecordSize)

C23_WellFormed ==
    /\ d_file.exists
    /\ C23_HeaderRead
    /\ C23_Magic = Magic_CDAT
    /\ C23_Stride = C23_KindStride

C23_BodyShort ==
    Len(d_file.bytes) < 16 + C23_RecordSize * C23_Announced

C23_DataOrNone ==
    d_pc = "done" =>
        /\ d_out.ok => C23_WellFormed
        /\ (C23_WellFormed /\ ~C23_BodyShort) => d_out.ok
        /\ (C23_WellFormed /\ C23_BodyShort) => ~d_out.ok
        /\ ~d_out.ok => d_out = BufNone
        /\ d_kind = "GEOMETRY" =>
               (Len(d_out.uvs) = Len(d_out.verts) /\ d_out.faces = <<>>)
        /\ d_kind = "ELEMS" => (d_out.verts = <<>> /\ d_out.uvs = <<>>)

C23_DataWhenWellFormed ==
    /\ C23_DataOrNone
    /\ (d_pc = "done" /\ d_out.ok) =>
           C23_Records = (IF C23_ByteLength >= 0 THEN C23_Announced ELSE 0)

\* the statement as made: the count is byteLength div the record size
C23_CountIsQuotient ==
    /\ C23_DataOrNone
    /\ (d_pc = "done" /\ d_out.ok) => C23_Records = C23_Announced

\* an index buffer announcing 14 bytes was decoded to its 2 triangles
C23_Witness ==
    /\ d_pc = "done"
    /\ d_kind = "ELEMS"
    /\ d_out.ok
    /\ C23_ByteLength = 14
    /\ Len(d_out.faces) = 2

(***************************************************************************)
(* C24: of the record unpacked for a vertex, the slot j is applied iff its *)
(* weight is a number not below 1e-5 (NaN is not applied) and its index is *)
(* less than the length of the bone-name list; the calls made for the      *)
(* vertex are, in slot order, one vgroup.add of that vertex with the       *)
(* slot's own weight and the mode 'ADD' on the group of the bone the index *)
(* names, so that two slots naming one bone make two additions to one      *)
(* group; and applied_weights_count counts the calls.                      *)
(***************************************************************************)
C24_Index(j) == w_rec[j + 1]
C24_Weight(j) == w_rec[w_fmt.num_influences + j + 1]

\* the 32 bits are those of a float32 that is not NaN and is >= 1e-5: a
\* positive float32 from the first one above 1e-5 up to +inf
C24_NotBelowEps(w) ==
    ~w.neg /\ Eps_Below + 1 <= w.bits /\ w.bits <= F32_Inf

C24_Applied(j) ==
    C24_NotBelowEps(C24_Weight(j)) /\ C24_Index(j) < Len(bone_names_map)

C24_AppliedSlots == {j \in 0..(w_fmt.num_influences - 1) : C24_Applied(j)}

C24_SlotOf(k) ==
    CHOOSE j \in C24_AppliedSlots :
        Cardinality({h \in C24_AppliedSlots : h < j}) = k - 1

C24_SlotsAdded ==
    (w_pc \in {"loop", "returned"} /\ w_i >= 1 /\ w_fmt.ok) =>
        /\ Len(w_rec) = 2 * w_fmt.num_influences
        /\ Len(w_adds) = Cardinality(C24_AppliedSlots)
        /\ \A k \in 1..Len(w_adds) :
               /\ w_adds[k].group = bone_names_map[C24_Index(C24_SlotOf(k)) + 1]
               /\ w_adds[k].vertex = w_i - 1
               /\ w_adds[k].weight = C24_Weight(C24_SlotOf(k))
               /\ w_adds[k].mode = "ADD"
        /\ w_count >= Len(w_adds)
        /\ w_count <= w_i * w_fmt.num_influences

C24_Counted == w_i' # w_i => w_count' = w_count + Len(w_adds')

C24_AppliedSum == []C24_SlotsAdded /\ [][C24_Counted]_vars

\* the slots 0 and 1 of a vertex name the same bone through the indices 0
\* and 2, with the weights 0.5 and the float32 just above 1e-5: both were
\* added to the group of that bone, and so was the last slot to its bone
C24_Witness ==
    /\ w_pc = "returned"
    /\ w_fmt.ok
    /\ w_fmt.num_influences = 8
    /\ w_i = 2
    /\ C24_Index(0) = 0 /\ C24_Index(1) = 2
    /\ C24_Weight(0) = W_Half
    /\ C24_Weight(1) = W_Above
    /\ Len(w_adds) = 3
    /\ w_adds[1].group = N_b0 /\ w_adds[2].group = N_b0
    /\ w_adds[1].weight = W_Half
    /\ w_adds[2].weight = W_Above
    /\ w_adds[3].group = N_b1

(***************************************************************************)
(* C29: whatever files have been parsed, every value of object_map is an   *)
(* element of obj_arr and is stored under its own name, every name of an   *)
(* object of obj_arr is a key of object_map, and the object stored under a *)
(* name is the last object of obj_arr that has that name.                  *)
(***************************************************************************)
C29_Named(name) == {j \in 1..Len(obj_arr) : obj_arr[j][A_name] = name}

C29_Last(name) ==
    CHOOSE j \in C29_Named(name) : \A k \in C29_Named(name) : k <= j

C29_MapMirrorsList ==
    /\ \A i \in 1..Len(object_map) :
           /\ object_map[i][2][A_name] = object_map[i][1]
           /\ \E j \in 1..Len(obj_arr) : obj_arr[j] = object_map[i][2]
           /\ \A h \in 1..Len(object_map) :
                  object_map[h][1] = object_map[i][1] => h = i
    /\ \A j \in 1..Len(obj_arr) :
           /\ MapHas(object_map, obj_arr[j][A_name])
           /\ MapGet(object_map, obj_arr[j][A_name])
                  = obj_arr[C29_Last(obj_arr[j][A_name])]

\* two objects of one name that differ were parsed, the second from a later
\* file, and object_map holds the second
C29_Witness ==
    /\ pc = "done"
    /\ \E i, j \in 1..Len(obj_arr) :
           /\ i < j
           /\ obj_arr[i][A_name] = obj_arr[j][A_name]
           /\ obj_arr[i] # obj_arr[j]
           /\ j = C29_Last(obj_arr[j][A_name])
           /\ MapGet(object_map, obj_arr[j][A_name]) = obj_arr[j]
           /\ MapGet(object_map, obj_arr[j][A_name]) # obj_arr[i]

(***************************************************************************)
(* C27.  Termination of the property loop.                                 *)
(***************************************************************************)

\* the reader is inside the `while True:` of parse_object_block
C27_InLoop == pc = "props"

\* C27: the property loop of parse_object_block terminates for every file
\* content: once the reader is inside the loop it eventually leaves it, by
\* the index -1 or by the end of the file, whatever lengths the properties
\* declare
C27_LoopTerminates == C27_InLoop ~> ~C27_InLoop

(***************************************************************************)
(* C26.  The order of the directory scans.  parse_file, parse_object_block *)
(* and load_dependencies are folded over whole files here, so that the     *)
(* outcome of one order of the scans can be set against the outcome of     *)
(* another.                                                                *)
(***************************************************************************)

\* the property loop of one block, to the pass that leaves it
RECURSIVE WhileLoop(_, _, _, _, _)
WhileLoop(bytes, ds, o, pos, pe) ==
    Only({ IF w.kind \in {"seeked", "continued"}
           THEN WhileLoop(bytes, ds, w.obj, w.pos, w.prop_end)
           ELSE w
           : w \in {WhilePass(bytes, ds, o, pos, pe)} })

\* `for i in range(data_count): self.parse_object_block()`, n blocks to go
RECURSIVE ObjectLoop(_, _, _, _, _)
ObjectLoop(bytes, ds, pos, n, graph) ==
    IF n = 0 THEN graph
    ELSE Only({
         IF h.kind = "returned" THEN ObjectLoop(bytes, ds, h.pos, n - 1, graph)
         ELSE IF h.kind = "raised" THEN graph
         ELSE Only({
              IF w.kind = "break"
              THEN ObjectLoop(bytes, ds, w.pos, n - 1,
                              Merged(Merged(graph, w.obj), w.obj))
              ELSE IF w.kind = "caught"
              THEN ObjectLoop(bytes, ds, w.pos, n - 1, Merged(graph, w.obj))
              ELSE graph
              : w \in {WhileLoop(bytes, ds, h.obj, h.pos, Unbound)} })
         : h \in {BlockHead(bytes, ds, pos)} })

\* parse_file(p) on the reader r = [graph, ds, loaded]
parse_file(sc, cutv, p, r) ==
    IF abspath(sc.cwd, p) \in r.loaded THEN r
    ELSE Only({
         [graph |-> IF o.open
                    THEN ObjectLoop(Content(sc, cutv, p), o.ds, o.cursor,
                                    o.blocks_left, r.graph)
                    ELSE r.graph,
          ds |-> o.ds,
          loaded |-> r.loaded \cup {abspath(sc.cwd, p)}]
         : o \in {OpenFile(sc, cutv, p, r.ds)} })

\* parse_file over the paths of q, in the order of q
RECURSIVE ParseAll(_, _, _, _)
ParseAll(sc, cutv, q, r) ==
    IF q = <<>> THEN r
    ELSE ParseAll(sc, cutv, Tail(q), parse_file(sc, cutv, Head(q), r))

\* read() up to the end of load_dependencies, when the two scans return
\* their paths in the orders same_dir_files and material_files
load_dependencies(sc, cutv, same_dir_files, material_files) ==
    Only({ [obj_arr |-> r.graph.obj_arr,
            object_map |-> r.graph.object_map,
            material_definitions |->
                CacheMaterialDefinitions(r.graph.obj_arr, 1,
                                         Len(r.graph.obj_arr), <<>>)]
           : r \in {ParseAll(sc, cutv,
                             <<sc.filepath>> \o same_dir_files \o material_files,
                             [graph |-> [obj_arr |-> <<>>, object_map |-> <<>>],
                              ds |-> <<>>, loaded |-> {}])} })

\* the orders the two scans of a scene can return
ScanOrders(sc) ==
    LET dir == dirname(sc.filepath)
        game == find_game_base_dir(dir)
        mat == join(game.path, W_MATERIALS)
    IN  [same_dir_files : Orders(GlobDir(sc.files, sc.cwd, dir)),
         material_files :
             IF ~game.none /\ DirExists(sc.files, sc.cwd, mat)
             THEN Orders(GlobRecursive(sc.files, sc.cwd, mat))
             ELSE {<<>>}]

\* a dict as the set of its items
Items(m) == {m[i] : i \in 1..Len(m)}

\* the reader has returned from build_variant_map
C26_Loaded == pc = "scene"

\* what the run has in hand is what the scans' orders o give
C26_Outcome(o) ==
    \E d \in {load_dependencies(Scene(scn), cut, o.same_dir_files,
                                o.material_files)} :
       /\ Items(object_map) = Items(d.object_map)
       /\ Items(material_definitions) = Items(d.material_definitions)
       /\ variant_material_map =
              build_variant_map(d.obj_arr, d.object_map,
                                d.material_definitions, <<>>)

\* C26: the final object_map, material_definitions and variant_material_map
\* are the same whatever order the directory scans return the dependency
\* files in: every order of the scans gives what the run has in hand
C26_OrderIndependent ==
    C26_Loaded => \A o \in ScanOrders(Scene(scn)) : C26_Outcome(o)

\* the run has in hand what the orders it took give
C26_OwnOrder ==
    C26_Loaded => \E o \in ScanOrders(Scene(scn)) : C26_Outcome(o)

(***************************************************************************)
(* C21.  What the builders leave alone.                                    *)
(***************************************************************************)

\* load_dependencies has returned and read() is in build_variant_map or in
\* build_blender_scene
C21_Building == pc \in {"variants", "scene"}

\* the list, the dict and, the objects being the values of the two, every
\* field of every decoded object
C21_Graph == <<obj_arr, object_map>>

\* C21: once load_dependencies has returned, build_variant_map and
\* build_blender_scene, with build_meshes, build_skeleton and
\* apply_skinning_data, leave obj_arr, object_map and the fields of every
\* decoded object as they were
C21_BuildersReadOnly == [][C21_Building => C21_Graph' = C21_Graph]_vars

\* a scene of which build_skeleton has made the armature and build_meshes,
\* with apply_skinning_data, a mesh, from a list of decoded objects
C21_Witness ==
    /\ pc = "done"
    /\ calls = 0
    /\ result = "FINISHED"
    /\ armature_object
    /\ obj_arr # <<>>
    /\ \E b \in {build_blender_scene(Scene(scn), cut, directory, obj_arr,
                                     object_map, material_definitions)} :
           b.built # <<>>

(***************************************************************************)
(* build_meshes on one RenderExt, as far as the material indices go: the   *)
(* two early returns, then one step per batch of render_ext_obj.batches.   *)
(* The vertex and face buffers hold MeshVerts vertices and MeshFaces        *)
(* faces.  mesh_data.polygons is Blender's collection: as a Python         *)
(* sequence does, it takes polygons[i] for -len <= i < 0 as                *)
(* polygons[len + i] and raises IndexError below -len.  validate() may     *)
(* drop faces, so the mesh has at most num_faces polygons.                 *)
(***************************************************************************)
MaxStart == 9
MaxTris == 3
MaxBatches == 2
MeshVerts == 3
MeshFaces == 3

NoBatch ==
    [seen |-> FALSE, start |-> 0, numTris |-> 0, batch_poly_start |-> 0,
     batch_poly_end |-> 0, material_index |-> 0, painted |-> {}]

\* the polygon (from 0) that polygons[i] is, for an i the collection takes
PolygonAt(polygons, i) == IF i < 0 THEN Len(polygons) + i ELSE i

\* `for i in range(batch_poly_start, batch_poly_end):
\*      if i < len(mesh_data.polygons): ...material_index = material_index`
\* the polygons (from 0) the loop assigns to, and whether polygons[i] raises
BatchLoop(polygons, batch_poly_start, batch_poly_end) ==
    LET range == batch_poly_start..(batch_poly_end - 1)
        taken == {i \in range : i < Len(polygons)}
    IN  IF \E i \in taken : i < 0 - Len(polygons)
        THEN [raised |-> TRUE, painted |-> {}]
        ELSE [raised |-> FALSE,
              painted |-> {PolygonAt(polygons, i) : i \in taken}]

mesh_face_start == FloorDiv(m_ext.baseElemIndex, 3)
num_faces == FloorDiv(m_ext.numElems, 3)
mesh_face_end == mesh_face_start + num_faces

MeshInit ==
    /\ m_pc = "start"
    /\ m_ext \in [baseVertexIndex : {0, 1}, numVerts : {0, MeshVerts},
                  baseElemIndex : 0..(3 * MeshFaces),
                  numElems : 0..(3 * MeshFaces)]
    /\ m_polygons = <<>>
    /\ m_materials = 0
    /\ m_k = 0
    /\ m_batch = NoBatch

MeshIdle ==
    /\ m_pc = "idle"
    /\ m_ext = [baseVertexIndex |-> 0, numVerts |-> 0, baseElemIndex |-> 0,
                numElems |-> 0]
    /\ m_polygons = <<>>
    /\ m_materials = 0
    /\ m_k = 0
    /\ m_batch = NoBatch

MeshEmpty ==
    \/ m_ext.baseVertexIndex + m_ext.numVerts > MeshVerts
    \/ m_ext.numVerts = 0
    \/ mesh_face_end > MeshFaces
    \/ num_faces = 0

\* the vertices or the faces are not in the buffers, or there are none:
\* `return []`
MeshReturnedEmpty ==
    /\ m_pc = "start"
    /\ MeshEmpty
    /\ m_pc' = "returned"
    /\ UNCHANGED <<m_ext, m_polygons, m_materials, m_k, m_batch>>
    /\ UNCHANGED others_m

\* from_pydata, update, validate, materials.clear(): the mesh with its
\* polygons, each of material_index 0
MeshMade ==
    /\ m_pc = "start"
    /\ ~MeshEmpty
    /\ \E n \in 0..num_faces : m_polygons' = [p \in 1..n |-> 0]
    /\ m_pc' = "batches"
    /\ UNCHANGED <<m_ext, m_materials, m_k, m_batch>>
    /\ UNCHANGED others_m

\* a batch that is not in object_map, or has no material definition in
\* material_definitions: `continue`
BatchContinued ==
    /\ m_pc = "batches"
    /\ m_k < MaxBatches
    /\ m_k' = m_k + 1
    /\ m_batch' = NoBatch
    /\ UNCHANGED <<m_pc, m_ext, m_polygons, m_materials>>
    /\ UNCHANGED others_m

\* a batch with its material: the material is appended and the loop over
\* the batch's polygons run
BatchPainted ==
    /\ m_pc = "batches"
    /\ m_k < MaxBatches
    /\ \E start \in (0 - MaxStart)..MaxStart, numTris \in (0 - 1)..MaxTris :
       \E batch_poly_start \in {FloorDiv(start, 3) - mesh_face_start} :
       \E l \in {BatchLoop(m_polygons, batch_poly_start,
                           batch_poly_start + numTris)} :
          /\ m_batch' = [seen |-> TRUE, start |-> start, numTris |-> numTris,
                         batch_poly_start |-> batch_poly_start,
                         batch_poly_end |-> batch_poly_start + numTris,
                         material_index |-> m_materials,
                         painted |-> l.painted]
          /\ m_polygons' = [p \in 1..Len(m_polygons) |->
                               IF p - 1 \in l.painted THEN m_materials
                               ELSE m_polygons[p]]
          /\ m_pc' = IF l.raised THEN "raised" ELSE "batches"
    /\ m_materials' = m_materials + 1
    /\ m_k' = m_k + 1
    /\ UNCHANGED m_ext
    /\ UNCHANGED others_m

\* the batches are through: apply_skinning_data, `return [blender_obj]`
MeshReturned ==
    /\ m_pc = "batches"
    /\ m_pc' = "returned"
    /\ UNCHANGED <<m_ext, m_polygons, m_materials, m_k, m_batch>>
    /\ UNCHANGED others_m

MeshNext ==
    \/ MeshReturnedEmpty \/ MeshMade \/ BatchContinued \/ BatchPainted
    \/ MeshReturned

(***************************************************************************)
(* C22.  The polygons a batch paints.                                      *)
(***************************************************************************)

\* the loop has run over a batch
C22_Batch == m_pc \in {"batches", "returned", "raised"} /\ m_batch.seen

\* the batch's range starts at (start div 3) - (baseElemIndex div 3) and
\* is numTris long
C22_Range ==
    /\ m_batch.batch_poly_start
           = (m_batch.start \div 3) - (m_ext.baseElemIndex \div 3)
    /\ m_batch.batch_poly_end = m_batch.batch_poly_start + m_batch.numTris

\* a polygon the batch painted is one of the mesh and lies in the range
C22_InRange(p) ==
    /\ 0 <= p /\ p < Len(m_polygons)
    /\ m_batch.batch_poly_start <= p /\ p < m_batch.batch_poly_end

\* C22: in build_meshes a batch's polygon range is
\* [(start div 3) - (baseElemIndex div 3), that + numTris), and the
\* material index is assigned only to the polygons of the range with
\* 0 <= i < number of polygons, for every start and numTris
C22_PaintsOwnRange ==
    C22_Batch => C22_Range /\ \A p \in m_batch.painted : C22_InRange(p)

\* the range itself is as the claim has it
C22_RangeAsStated == C22_Batch => C22_Range

(***************************************************************************)
(* Specifications.  Each runs one part of the program; the variables of    *)
(* the other parts stay idle.                                              *)
(***************************************************************************)
InitBaseName ==
    NameInit /\ QuatIdle /\ DataIdle /\ WeightsIdle /\ ReaderIdle /\ AnimIdle
    /\ MeshIdle
SpecBaseName == InitBaseName /\ [][NameNext]_vars

InitQuat ==
    QuatInit /\ NameIdle /\ DataIdle /\ WeightsIdle /\ ReaderIdle /\ AnimIdle
    /\ MeshIdle
SpecQuat == InitQuat /\ [][QuatNext]_vars

InitElems ==
    DataInit /\ NameIdle /\ QuatIdle /\ WeightsIdle /\ ReaderIdle /\ AnimIdle
    /\ MeshIdle
SpecElems == InitElems /\ [][DataNext]_vars

InitWeights ==
    WeightsInit /\ NameIdle /\ QuatIdle /\ DataIdle /\ ReaderIdle /\ AnimIdle
    /\ MeshIdle
SpecWeights == InitWeights /\ [][WeightsNext]_vars

\* TLGAnimReader.read on an animation file
InitAnim ==
    AnimInit /\ NameIdle /\ QuatIdle /\ DataIdle /\ WeightsIdle /\ ReaderIdle
    /\ MeshIdle
SpecAnim == InitAnim /\ [][AnimNext]_vars

\* build_meshes on one RenderExt
InitMesh ==
    MeshInit /\ NameIdle /\ QuatIdle /\ DataIdle /\ WeightsIdle /\ ReaderIdle
    /\ AnimIdle
SpecMesh == InitMesh /\ [][MeshNext]_vars

\* TLGReader.read on a scene
Init ==
    ReaderInit /\ NameIdle /\ QuatIdle /\ DataIdle /\ WeightsIdle /\ AnimIdle
    /\ MeshIdle
Spec == Init /\ [][Next]_vars

\* TLGReader.read on a scene, where the interpreter always runs the next
\* statement of the program
WhileTrue == PropSeeked \/ PropContinued \/ PropBreak \/ PropCaught \/ PropRaised
SpecFair == Init /\ [][Next]_vars /\ WF_vars(WhileTrue)

=============================================================================
